---- MODULE Spec2Model ----
(***************************************************************************)
(* Task-status reconciliation of the RQ engine of docling-serve            *)
(* (docling_serve/orchestrator_factory.py, RedisTaskStatusMixin), the      *)
(* single-use result cleanup of the gRPC layer, and their environment: the *)
(* RQ job records, the Redis keys and the worker.                          *)
(*                                                                         *)
(* Three stores hold a task: the RQ job (rq_job), the durable projection   *)
(* "docling:tasks:<id>:metadata" (redis_metadata) and the in-memory map    *)
(* self.tasks (tasks).  Every handler is one action; the outcome of the    *)
(* last handler call is kept in `last`, and every step that is not a call  *)
(* resets it, so a predicate over `last` is a post-condition of a call.    *)
(***************************************************************************)
EXTENDS Integers, FiniteSets, Sequences, TLC

VARIABLES
    tasks,              \* self.tasks: task id -> Task (NoTask when the key is absent)
    task_result_keys,   \* self._task_result_keys: the ids that have an entry
    redis_metadata,     \* Redis key <prefix><id>:metadata (NoMeta when absent)
    redis_result_key,   \* Redis key <prefix><id>:result_key: the ids that have one
    rq_job,             \* the RQ job record of each id, by job status
    rq_results,         \* the ids whose worker-side result payload is stored
    single_use_results, \* docling_serve_settings.single_use_results
    removal,            \* number of scheduled _remove_task_impl timers per id
    issued,             \* ids handed out by enqueue (uuid4: never reissued)
    deleted,            \* history: ids on which delete_task has run
    delete_calls,       \* history: how many times delete_task(id) has been invoked
    reported_terminal,  \* history: ids for which an RQ query answered success/failure
    orphan_msg,         \* history: the error_message returned at orphan reclassification
    watchdog_published, \* history: ids an out-of-band publisher has marked FAILURE
    observed,           \* history: the last two statuses a caller was given, per id
    last                \* the outcome of the handler call just made

\* The gRPC service object (docling_serve/grpc/server.py): its queue-processing
\* task and the coroutines that run _ensure_queue_started and close.
VARIABLES
    queue_task,          \* self._queue_task: 0 for None, else an index into launched
    launched,            \* the process_queue tasks created so far, by task state
    queue_lock,          \* self._queue_lock: "free", or the caller holding it
    pc,                  \* the position of each caller's coroutine
    load_models_at_boot, \* docling_serve_settings.load_models_at_boot
    close_pc             \* the position of the close() coroutine

queue_vars == << queue_task, launched, queue_lock, pc, load_models_at_boot, close_pc >>

\* One RPC of the gRPC service and the orchestrator operations it invokes.
VARIABLES
    api_key,             \* docling_serve_settings.api_key ("" when not configured)
    rpc,                 \* the RPC in flight: request, operations invoked, status code
    orch_tasks           \* how many Tasks the orchestrator holds

rpc_vars == << api_key, rpc, orch_tasks >>

\* The synchronous wait of ConvertSource / Chunk*Source (_wait_task_complete).
VARIABLES
    sync_poll_interval,  \* docling_serve_settings.sync_poll_interval
    max_sync_wait,       \* docling_serve_settings.max_sync_wait
    clock,               \* asyncio.get_running_loop().time()
    wait,                \* the waiting call: position, start, wake-up time, outcome
    task_completed       \* whether the awaited task is terminal

wait_vars == << sync_poll_interval, max_sync_wait, clock, wait, task_completed >>

\* The engines under docling_serve/engines: AsyncLocalOrchestrator and
\* AsyncRQOrchestrator.
VARIABLES
    engine,              \* which engine the process runs: "local" or "rq"
    queue_max_size,      \* docling_serve_settings.queue_max_size
    eng_tasks,           \* self.tasks: id -> task status ("absent" when no key)
    queue_list,          \* AsyncLocalOrchestrator.queue_list
    task_queue,          \* self.task_queue: the ids waiting, in order
    job_status,          \* AsyncRQOrchestrator: the RQ job status of each id
    eng_last             \* the outcome of the engine call just made

engine_vars == << engine, queue_max_size, eng_tasks, queue_list, task_queue,
                  job_status, eng_last >>

\* A server-streaming Watch* RPC (_poll_status_stream).
VARIABLES
    stream               \* the stream: position, snapshots emitted, how it ended

stream_vars == << stream >>

\* A Task on its way through the durable projection, and the progress
\* counters of a task of the KFP engine.
VARIABLES
    roundtrip,           \* the Task stored, the JSON under its key, the Task loaded
    progress,            \* AsyncKfpOrchestrator: processing_meta of a task, callbacks seen
    convert_rpc,         \* gRPC service: self._requested_formats, results, responses given
    status_calls         \* TaskStatus calls in flight on one id, with the objects they hold

data_vars == << roundtrip, progress, convert_rpc, status_calls >>

\* The state of the other components of the server, which no step of the RQ
\* engine touches.
service_vars == << queue_vars, rpc_vars, wait_vars, engine_vars, stream_vars, data_vars >>

\* The state of the RQ engine with the Redis projection.
rq_vars == << tasks, task_result_keys, redis_metadata, redis_result_key, rq_job,
              rq_results, single_use_results, removal, issued, deleted,
              reported_terminal, orphan_msg, watchdog_published, last,
              delete_calls, observed >>

vars == << rq_vars, service_vars >>

TaskIds == {"t1"}

\* How many single-use removal timers may be pending for one task.
MaxScheduledRemovals == 2

PENDING == "pending"
STARTED == "started"
SUCCESS == "success"
FAILURE == "failure"

Terminal == {SUCCESS, FAILURE}
NonTerminal == {PENDING, STARTED}

NoTask == [task_status |-> "absent", error_message |-> "none", finished_at |-> "none"]
NoMeta == [task_status |-> "absent", error_message |-> "none"]

NoCall == [op |-> "none", id |-> "none", kind |-> "none", task_status |-> "none",
           error_message |-> "none", q1 |-> "none", q2 |-> "none", rq |-> "none",
           proj_before |-> NoMeta, mem_before |-> "none", key_before |-> FALSE,
           sources |-> << >>, payload |-> << >>, wait |-> 0, waited |-> 0,
                terminal_before |-> {}]

\* Nothing returned to a caller yet.
NoObservation == [prev |-> "none", cur |-> "none"]

\* A caller is handed the outcome `ret` of a status query on `id`: a Task is
\* noted after the one noted before, an exception is not.
Observe(obs, id, ret) ==
    IF ret.kind = "task"
    THEN [obs EXCEPT ![id] = [prev |-> @.cur, cur |-> ret.task.task_status]]
    ELSE obs

\* Task.is_completed
is_completed(task) == task.task_status \in Terminal

\* Task.set_status: the first terminal status stamps finished_at with "now".
set_status(task, status) ==
    [task EXCEPT !.task_status = status,
                 !.finished_at = IF status \in Terminal /\ @ = "none" THEN "recent" ELSE @]

\* The placeholder Task built for the queue query.
temp_task == [task_status |-> PENDING, error_message |-> "none", finished_at |-> "none"]

\* The message synthesized at orphan reclassification; it embeds a status.
OrphanMessage(status) == "orphaned:" \o status

IsOrphanMessage(msg) == msg \in {OrphanMessage(s) : s \in Terminal \cup NonTerminal}

\* RQ job status -> task status.
JobToStatus(job) ==
    CASE job = "finished" -> SUCCESS
      [] job = "queued"   -> PENDING
      [] job = "started"  -> STARTED
      [] OTHER            -> FAILURE

\* Mutant: the JSON is written without the error_message.
StoreTaskInRedis_NoErrorMessage(meta, id, task) ==
    [meta EXCEPT ![id] = [task_status |-> task.task_status, error_message |-> "none"]]

\* _store_task_in_redis: the JSON written under <prefix><id>:metadata.
StoreTaskInRedis(meta, id, task) ==
    [meta EXCEPT ![id] = [task_status |-> task.task_status,
                          error_message |-> task.error_message]]

\* _get_task_from_redis: None on a miss, else a Task rebuilt from the JSON.
GetTaskFromRedis(meta, id) ==
    IF meta[id] = NoMeta
    THEN NoTask
    ELSE [task_status |-> meta[id].task_status,
          error_message |-> meta[id].error_message,
          finished_at |-> "none"]

\* The base class's _update_task_from_rq on task `task`: nothing for a completed
\* task, else Job.fetch (NoSuchJobError, or any other exception when `fail`)
\* and the job's status written into the task; a finished job records its result key.
ParentUpdateTaskFromRq(task, job, fail) ==
    IF is_completed(task)
    THEN [kind |-> "ok", task |-> task, key |-> FALSE, seen |-> "skipped"]
    ELSE IF fail
    THEN [kind |-> "error", task |-> task, key |-> FALSE, seen |-> "error"]
    ELSE IF job = "none"
    THEN [kind |-> "nosuchjob", task |-> task, key |-> FALSE, seen |-> "nosuchjob"]
    ELSE [kind |-> "ok", task |-> set_status(task, JobToStatus(job)),
          key |-> (job = "finished"), seen |-> JobToStatus(job)]

\* Mutant: RQ is consulted for terminal tasks too.
SkipRqForTerminal_Never(original) == FALSE

\* The guard of _get_task_from_rq_direct: a cached terminal task is returned
\* without consulting RQ.
SkipRqForTerminal(original) == original # NoTask /\ is_completed(original)

\* Mutant: any exception of the RQ query is answered with _RQ_JOB_GONE.
GetTaskFromRqDirect_ErrorIsGone(S, id, fail) ==
    LET original == S.tasks[id] IN
    IF SkipRqForTerminal(original)
    THEN [kind |-> "task", task |-> original, seen |-> "skipped", S |-> S]
    ELSE
      LET u    == ParentUpdateTaskFromRq(temp_task, rq_job[id], fail)
          keys == IF u.key THEN S.keys \cup {id} ELSE S.keys
      IN  CASE u.kind \in {"nosuchjob", "error"} ->
                 [kind |-> "gone", task |-> NoTask, seen |-> u.seen, S |-> S]
            [] u.kind = "ok" /\ u.task.task_status # PENDING ->
                 [kind |-> "task", task |-> u.task, seen |-> u.seen,
                  S |-> [S EXCEPT !.keys = keys,
                                  !.rkey = IF id \in keys THEN @ \cup {id} ELSE @]]
            [] OTHER ->
                 [kind |-> "none", task |-> NoTask, seen |-> u.seen,
                  S |-> [S EXCEPT !.keys = keys]]

\* _get_task_from_rq_direct on the stores S = [tasks, keys, rkey]: a Task
\* ("task"), the sentinel _RQ_JOB_GONE ("gone") or None ("none").  self.tasks
\* is left as it was: the finally clause restores the original entry or deletes
\* the placeholder.
GetTaskFromRqDirect(S, id, fail) ==
    LET original == S.tasks[id] IN
    IF SkipRqForTerminal(original)
    THEN [kind |-> "task", task |-> original, seen |-> "skipped", S |-> S]
    ELSE
      LET u    == ParentUpdateTaskFromRq(temp_task, rq_job[id], fail)
          keys == IF u.key THEN S.keys \cup {id} ELSE S.keys
      IN  CASE u.kind = "nosuchjob" ->
                 [kind |-> "gone", task |-> NoTask, seen |-> u.seen, S |-> S]
            [] u.kind = "error" ->
                 [kind |-> "none", task |-> NoTask, seen |-> u.seen, S |-> S]
            [] u.kind = "ok" /\ u.task.task_status # PENDING ->
                 [kind |-> "task", task |-> u.task, seen |-> u.seen,
                  S |-> [S EXCEPT !.keys = keys,
                                  !.rkey = IF id \in keys THEN @ \cup {id} ELSE @]]
            [] OTHER ->
                 [kind |-> "none", task |-> NoTask, seen |-> u.seen,
                  S |-> [S EXCEPT !.keys = keys]]

\* self.tasks.pop(id, None) and self._task_result_keys.pop(id, None)
Pop(S, id) == [S EXCEPT !.tasks[id] = NoTask, !.keys = @ \ {id}]

\* Mutant: the adopted task is cached but not written to the projection.
AdoptRqResult_NoStore(S, id, task) ==
    [ret  |-> [kind |-> "task", task |-> task],
     S    |-> [S EXCEPT !.tasks[id] = task],
     seen |-> "none"]

\* task_status, RQ answered with a Task: adopt it, write it through to the
\* in-memory map and the projection, return it.
AdoptRqResult(S, id, task) ==
    [ret  |-> [kind |-> "task", task |-> task],
     S    |-> [S EXCEPT !.tasks[id] = task, !.meta = StoreTaskInRedis(@, id, task)],
     seen |-> "none"]

\* Mutant: the projected task is returned and the tracking is left in place.
ReconcileCompleted_KeepTracking(S, id, task) ==
    [ret  |-> [kind |-> "task", task |-> task],
     S    |-> S,
     seen |-> "none"]

\* task_status, job gone and the projection terminal: clean up tracking and
\* return the projected task.
ReconcileCompleted(S, id, task) ==
    [ret  |-> [kind |-> "task", task |-> task],
     S    |-> Pop(S, id),
     seen |-> "none"]

\* The task an orphan is turned into: set_status(FAILURE), then the message,
\* which reads task.task_status after the status was set.
OrphanedTask(task) ==
    LET failed == set_status(task, FAILURE)
    IN  [failed EXCEPT !.error_message = OrphanMessage(failed.task_status)]

\* Mutant: the projected pending or started task is returned as it is.
ReconcileOrphan_ReturnAsIs(S, id, task) ==
    [ret  |-> [kind |-> "task", task |-> task],
     S    |-> Pop(S, id),
     seen |-> "none"]

\* Mutant: the orphan is marked FAILURE but the projection is not rewritten.
ReconcileOrphan_NoStore(S, id, task) ==
    [ret  |-> [kind |-> "task", task |-> OrphanedTask(task)],
     S    |-> Pop(S, id),
     seen |-> "none"]

\* task_status, job gone and the projection pending or started: mark the task
\* FAILURE (orphaned), clean up tracking, store the failure in the projection.
ReconcileOrphan(S, id, task) ==
    LET orphan == OrphanedTask(task)
        popped == Pop(S, id)
    IN  [ret  |-> [kind |-> "task", task |-> orphan],
         S    |-> [popped EXCEPT !.meta = StoreTaskInRedis(@, id, orphan)],
         seen |-> "none"]

\* Mutant: the fresh task is returned without being written through.
VerifyStaleStatus_NoWriteThrough(S, id, task, fail) ==
    LET fresh == GetTaskFromRqDirect(S, id, fail) IN
    IF fresh.kind = "task" /\ fresh.task.task_status # task.task_status
    THEN [ret |-> [kind |-> "task", task |-> fresh.task], S |-> fresh.S,
          seen |-> fresh.seen]
    ELSE [ret |-> [kind |-> "task", task |-> task], S |-> fresh.S, seen |-> fresh.seen]

\* task_status, RQ gave no answer and the projection is pending or started:
\* query RQ once more and adopt the fresh task only if its status differs.
VerifyStaleStatus(S, id, task, fail) ==
    LET fresh == GetTaskFromRqDirect(S, id, fail) IN
    IF fresh.kind = "task" /\ fresh.task.task_status # task.task_status
    THEN [AdoptRqResult(fresh.S, id, fresh.task) EXCEPT !.seen = fresh.seen]
    ELSE [ret |-> [kind |-> "task", task |-> task], S |-> fresh.S, seen |-> fresh.seen]

\* Mutant: TaskNotFoundError is raised and the in-memory entry is kept.
TrulyGone_KeepEntry(S, id) ==
    [ret  |-> [kind |-> "notfound", task |-> NoTask],
     S    |-> S,
     seen |-> "none"]

\* task_status, job gone and no projection: drop the in-memory entry and raise
\* TaskNotFoundError.
TrulyGone(S, id) ==
    [ret  |-> [kind |-> "notfound", task |-> NoTask],
     S    |-> [S EXCEPT !.tasks[id] = NoTask],
     seen |-> "none"]

\* The override _update_task_from_rq of the mixin, applied to a task the
\* in-memory map holds: the base class's update, a projection write when the
\* status changed, and a refresh of the result-key pointer.
UpdateTaskFromRq(S, id, fail) ==
    LET u    == ParentUpdateTaskFromRq(S.tasks[id], rq_job[id], fail)
        keys == IF u.key THEN S.keys \cup {id} ELSE S.keys
    IN  IF u.kind # "ok"
        THEN [kind |-> "error", S |-> S, seen |-> u.seen]
        ELSE [kind |-> "ok",
              S |-> [S EXCEPT !.tasks[id] = u.task,
                              !.keys = keys,
                              !.meta = IF u.task.task_status # S.tasks[id].task_status
                                       THEN StoreTaskInRedis(@, id, u.task) ELSE @,
                              !.rkey = IF id \in keys THEN @ \cup {id} ELSE @],
              seen |-> u.seen]

\* task_status, no RQ answer and no projection: the base class's task_status,
\* which refreshes the in-memory task from RQ and returns it, or raises
\* TaskNotFoundError when the map has no entry; the result is stored in the
\* projection.  An RQ exception in the refresh propagates to the caller.
ParentTaskStatus(S, id, fail) ==
    IF S.tasks[id] = NoTask
    THEN [ret |-> [kind |-> "notfound", task |-> NoTask], S |-> S, seen |-> "none"]
    ELSE LET u == UpdateTaskFromRq(S, id, fail) IN
         IF u.kind = "error"
         THEN [ret |-> [kind |-> "error", task |-> NoTask], S |-> S, seen |-> u.seen]
         ELSE [ret  |-> [kind |-> "task", task |-> u.S.tasks[id]],
               S    |-> [u.S EXCEPT !.meta = StoreTaskInRedis(@, id, u.S.tasks[id])],
               seen |-> u.seen]

\* RedisTaskStatusMixin.task_status as a function of the stores and of which
\* of its RQ queries fail with a transient (non-NoSuchJob) exception.
\*   rq       what _get_task_from_rq_direct returned first: task, gone or none
\*   seen     what RQ answered to that first query (skipped when none was made)
\*   seen2    what RQ answered to the second query, if the call made one
\*   reported whether some RQ query of the call answered success or failure
\*   orphaned whether the call reclassified an orphan
TaskStatusResult(S, id, fail1, fail2, fail3) ==
    LET rq_result   == GetTaskFromRqDirect(S, id, fail1)
        S1          == rq_result.S
        job_is_gone == rq_result.kind = "gone"
        task        == GetTaskFromRedis(S1.meta, id)
        out ==
          IF rq_result.kind = "task" THEN AdoptRqResult(S1, id, rq_result.task)
          ELSE IF task # NoTask THEN
                 IF job_is_gone THEN
                    IF is_completed(task) THEN ReconcileCompleted(S1, id, task)
                    ELSE ReconcileOrphan(S1, id, task)
                 ELSE IF task.task_status \in {PENDING, STARTED}
                      THEN VerifyStaleStatus(S1, id, task, fail2)
                      ELSE [ret |-> [kind |-> "task", task |-> task], S |-> S1,
                            seen |-> "none"]
          ELSE IF job_is_gone THEN TrulyGone(S1, id)
          ELSE ParentTaskStatus(S1, id, fail3)
    IN  [ret |-> out.ret, S |-> out.S, rq |-> rq_result.kind, seen |-> rq_result.seen,
         seen2 |-> out.seen,
         reported |-> (rq_result.seen \in Terminal \/ out.seen \in Terminal),
         orphaned |-> (job_is_gone /\ task # NoTask /\ ~is_completed(task))]

Stores == [tasks |-> tasks, keys |-> task_result_keys, meta |-> redis_metadata,
           rkey |-> redis_result_key]

\* A TaskStatus(id) call; r is what the call computes.
TaskStatus(id, fail1, fail2, fail3) ==
    \E r \in {TaskStatusResult(Stores, id, fail1, fail2, fail3)} :
    /\ tasks' = r.S.tasks
    /\ task_result_keys' = r.S.keys
    /\ redis_metadata' = r.S.meta
    /\ redis_result_key' = r.S.rkey
    /\ reported_terminal' = IF r.reported THEN reported_terminal \cup {id}
                            ELSE reported_terminal
    /\ orphan_msg' = IF r.orphaned
                     THEN [orphan_msg EXCEPT ![id] = r.ret.task.error_message]
                     ELSE orphan_msg
    /\ observed' = Observe(observed, id, r.ret)
    /\ last' = [op |-> "status", id |-> id, kind |-> r.ret.kind,
                task_status |-> r.ret.task.task_status,
                error_message |-> r.ret.task.error_message,
                q1 |-> r.seen, q2 |-> r.seen2, rq |-> r.rq,
                proj_before |-> redis_metadata[id],
                mem_before |-> tasks[id].task_status,
                key_before |-> (id \in task_result_keys),
                sources |-> << >>, payload |-> << >>, wait |-> 0, waited |-> 0,
                terminal_before |-> {}]
    /\ UNCHANGED << service_vars, delete_calls, rq_job, rq_results, single_use_results, removal, issued, deleted,
                    watchdog_published >>

\* The stores as a process just constructed sees them.
PeerStores == [Stores EXCEPT !.tasks = [i \in TaskIds |-> NoTask], !.keys = {}]

\* A TaskStatus(id) call served by another server process on the same Redis,
\* whose own maps are those of a process just constructed: it reads and writes
\* the Redis keys and leaves this process's maps alone.
PeerTaskStatus(id, fail1, fail2, fail3) ==
    \E r \in {TaskStatusResult(PeerStores, id, fail1, fail2, fail3)} :
    /\ redis_metadata' = r.S.meta
    /\ redis_result_key' = r.S.rkey
    /\ reported_terminal' = IF r.reported THEN reported_terminal \cup {id}
                            ELSE reported_terminal
    /\ orphan_msg' = IF r.orphaned
                     THEN [orphan_msg EXCEPT ![id] = r.ret.task.error_message]
                     ELSE orphan_msg
    /\ observed' = Observe(observed, id, r.ret)
    /\ last' = [op |-> "peer_status", id |-> id, kind |-> r.ret.kind,
                task_status |-> r.ret.task.task_status,
                error_message |-> r.ret.task.error_message,
                q1 |-> r.seen, q2 |-> r.seen2, rq |-> r.rq,
                proj_before |-> redis_metadata[id],
                mem_before |-> "absent", key_before |-> FALSE,
                sources |-> << >>, payload |-> << >>, wait |-> 0, waited |-> 0,
                terminal_before |-> {}]
    /\ UNCHANGED << service_vars, delete_calls, tasks, task_result_keys, rq_job, rq_results, single_use_results,
                    removal, issued, deleted, watchdog_published >>

\* The kinds of source a caller may pass to enqueue: a DocumentStream, an
\* HttpSource, a FileSource, or S3 coordinates.
SourceKinds == {"stream", "http", "file", "s3"}

\* How many sources one enqueue call carries at most.
MaxSources == 1

RECURSIVE Lists(_, _)
\* The lists over S of length at most n.
Lists(S, n) ==
    IF n = 0 THEN {<< >>}
    ELSE LET shorter == Lists(S, n - 1)
         IN  shorter \cup {Append(l, x) : l \in shorter, x \in S}

\* The `sources` argument of an enqueue call.
RequestSources == Lists(SourceKinds, MaxSources)

\* What the job payload is to carry for a source: a DocumentStream is read
\* and base64-encoded into a FileSource, any other source goes as it is.
AsJobSource(source) == IF source = "stream" THEN "file" ELSE source

\* RedisAwareRQOrchestrator.enqueue, the loop that builds rq_sources: a
\* DocumentStream is appended as a FileSource, an HttpSource or a FileSource
\* as it is, and nothing is appended for any other source.
RECURSIVE RqSources(_)
RqSources(sources) ==
    IF sources = << >> THEN << >>
    ELSE LET source == Head(sources)
             rest   == RqSources(Tail(sources))
         IN  IF source = "stream" THEN << "file" >> \o rest
             ELSE IF source \in {"http", "file"} THEN << source >> \o rest
             ELSE rest

\* Mutant: the task is stored and the job pushed, the projection is not written.
Enqueue_NoProjection(id, sources) ==
    /\ id \notin issued
    /\ LET task == [task_status |-> PENDING, error_message |-> "none",
                    finished_at |-> "none"]
       IN  /\ tasks' = [tasks EXCEPT ![id] = task]
           /\ rq_job' = [rq_job EXCEPT ![id] = "queued"]
           /\ last' = [NoCall EXCEPT !.op = "enqueue", !.id = id, !.kind = "task",
                                     !.task_status = task.task_status,
                                     !.mem_before = tasks[id].task_status,
                                     !.proj_before = redis_metadata[id],
                                     !.rq = rq_job[id],
                                     !.sources = sources,
                                     !.payload = RqSources(sources)]
    /\ issued' = issued \cup {id}
    /\ UNCHANGED << service_vars, observed, delete_calls, task_result_keys, redis_metadata,
                    redis_result_key, rq_results, single_use_results,
                    removal, deleted, reported_terminal, orphan_msg, watchdog_published >>

\* RedisAwareRQOrchestrator.enqueue: a fresh id, the Task built from the
\* sources and stored pending in the in-memory map, the job pushed with
\* job_id = task_id, the projection written, the Task returned.  The call
\* record keeps what the three stores held under the id before the call.
Enqueue(id, sources) ==
    /\ id \notin issued
    /\ LET task == [task_status |-> PENDING, error_message |-> "none",
                    finished_at |-> "none"]
       IN  /\ tasks' = [tasks EXCEPT ![id] = task]
           /\ rq_job' = [rq_job EXCEPT ![id] = "queued"]
           /\ redis_metadata' = StoreTaskInRedis(redis_metadata, id, task)
           /\ last' = [NoCall EXCEPT !.op = "enqueue", !.id = id, !.kind = "task",
                                     !.task_status = task.task_status,
                                     !.mem_before = tasks[id].task_status,
                                     !.proj_before = redis_metadata[id],
                                     !.rq = rq_job[id],
                                     !.sources = sources,
                                     !.payload = RqSources(sources)]
    /\ issued' = issued \cup {id}
    /\ UNCHANGED << service_vars, observed, delete_calls, task_result_keys, redis_result_key,
                    rq_results, single_use_results,
                    removal, deleted, reported_terminal, orphan_msg, watchdog_published >>

\* The base class's task_result: the payload the recorded result key points to.
ParentTaskResult(keys, id) == id \in keys /\ id \in rq_results

\* RedisTaskStatusMixin.task_result: the base class's answer, else the result
\* key recovered from Redis and the base class asked again.
TaskResult(S, id) ==
    IF ParentTaskResult(S.keys, id)
    THEN [found |-> TRUE, S |-> S]
    ELSE IF id \in S.rkey
    THEN LET S1 == [S EXCEPT !.keys = @ \cup {id}]
         IN  [found |-> ParentTaskResult(S1.keys, id), S |-> S1]
    ELSE [found |-> FALSE, S |-> S]

\* with_single_use_cleanup: with single_use_results on, one more
\* _remove_task_impl timer is created for the task.
WithSingleUseCleanup(n) == IF single_use_results THEN n + 1 ELSE n

\* GetConvertResult / GetChunkResult: NOT_FOUND when task_result is None, else
\* the response and the single-use cleanup.
FetchResult(id) ==
    \E r \in {TaskResult(Stores, id)} :
    /\ removal[id] < MaxScheduledRemovals
    /\ task_result_keys' = r.S.keys
    /\ removal' = IF r.found THEN [removal EXCEPT ![id] = WithSingleUseCleanup(@)]
                  ELSE removal
    /\ last' = [NoCall EXCEPT !.op = "result", !.id = id,
                              !.kind = IF r.found THEN "result" ELSE "notfound"]
    /\ UNCHANGED << service_vars, observed, delete_calls, tasks, redis_metadata, redis_result_key, rq_job, rq_results,
                    single_use_results, issued, deleted, reported_terminal, orphan_msg, watchdog_published >>

\* delete_task of the RQ engine (inherited from the base class): the in-memory
\* task, the recorded result key with its payload and the RQ job are removed.
\* The projection key is private to RedisTaskStatusMixin, which does not
\* override delete_task and deletes no key.
DeleteTask(S, id) ==
    [S     |-> Pop(S, id),
     job   |-> [rq_job EXCEPT ![id] = "none"],
     rqres |-> rq_results \ {id}]

\* _remove_task_impl: after result_removal_delay, delete_task(task_id).
RemoveTaskImpl(id) ==
    \E d \in {DeleteTask(Stores, id)} :
    /\ removal[id] > 0
    /\ removal' = [removal EXCEPT ![id] = @ - 1]
    /\ tasks' = d.S.tasks
    /\ task_result_keys' = d.S.keys
    /\ redis_metadata' = d.S.meta
    /\ redis_result_key' = d.S.rkey
    /\ rq_job' = d.job
    /\ rq_results' = d.rqres
    /\ deleted' = deleted \cup {id}
    /\ delete_calls' = [delete_calls EXCEPT ![id] = @ + 1]
    /\ last' = NoCall
    /\ UNCHANGED << service_vars, observed, single_use_results, issued, reported_terminal, orphan_msg, watchdog_published >>

\* Mutant: every completed task is reaped, whatever its age.
ToRemove_AnyAge(ts) ==
    {id \in DOMAIN ts : ts[id] # NoTask /\ is_completed(ts[id])}

\* The tasks one sweep of _reap_zombie_tasks removes: completed, finished_at
\* set and before the cutoff.
ToRemove(ts) ==
    {id \in DOMAIN ts : ts[id] # NoTask /\ is_completed(ts[id])
                        /\ ts[id].finished_at # "none"
                        /\ ts[id].finished_at = "old"}

\* One sweep of _reap_zombie_tasks that finds something to remove.
ReapZombieTasks ==
    LET to_remove == ToRemove(tasks) IN
    /\ to_remove # {}
    /\ tasks' = [id \in DOMAIN tasks |-> IF id \in to_remove THEN NoTask ELSE tasks[id]]
    /\ task_result_keys' = task_result_keys \ to_remove
    /\ last' = [NoCall EXCEPT !.op = "reap"]
    /\ UNCHANGED << service_vars, observed, delete_calls, redis_metadata, redis_result_key, rq_job, rq_results,
                    single_use_results, removal, issued, deleted, reported_terminal,
                    orphan_msg, watchdog_published >>

\* Time passes: a finished_at stamp becomes older than max_age.
Age(id) ==
    /\ tasks[id].finished_at = "recent"
    /\ tasks' = [tasks EXCEPT ![id].finished_at = "old"]
    /\ last' = NoCall
    /\ UNCHANGED << service_vars, observed, delete_calls, task_result_keys, redis_metadata, redis_result_key, rq_job,
                    rq_results, single_use_results, removal, issued, deleted,
                    reported_terminal, orphan_msg, watchdog_published >>

\* An out-of-band publisher (the watchdog the comment in _get_task_from_rq_direct
\* names) marks a tracked, unfinished task FAILURE in the in-memory map.
WatchdogFailure(id) ==
    /\ tasks[id] # NoTask
    /\ ~is_completed(tasks[id])
    /\ tasks' = [tasks EXCEPT ![id] =
                    [set_status(@, FAILURE) EXCEPT !.error_message = "watchdog"]]
    /\ watchdog_published' = watchdog_published \cup {id}
    /\ last' = NoCall
    /\ UNCHANGED << service_vars, observed, delete_calls, task_result_keys, redis_metadata, redis_result_key, rq_job,
                    rq_results, single_use_results, removal, issued, deleted,
                    reported_terminal, orphan_msg >>

\* The worker takes the job.
WorkerStart(id) ==
    /\ rq_job[id] = "queued"
    /\ rq_job' = [rq_job EXCEPT ![id] = "started"]
    /\ last' = NoCall
    /\ UNCHANGED << service_vars, observed, delete_calls, tasks, task_result_keys, redis_metadata, redis_result_key,
                    rq_results, single_use_results, removal, issued, deleted,
                    reported_terminal, orphan_msg, watchdog_published >>

\* The worker ends the job: finished with a stored result, or failed.
WorkerFinish(id, ok) ==
    /\ rq_job[id] = "started"
    /\ rq_job' = [rq_job EXCEPT ![id] = IF ok THEN "finished" ELSE "failed"]
    /\ rq_results' = IF ok THEN rq_results \cup {id} ELSE rq_results
    /\ last' = NoCall
    /\ UNCHANGED << service_vars, observed, delete_calls, tasks, task_result_keys, redis_metadata, redis_result_key,
                    single_use_results, removal, issued, deleted, reported_terminal,
                    orphan_msg, watchdog_published >>

\* The RQ job record disappears: TTL expiry, eviction, or a dead worker's job
\* dropped by the queue service.
JobExpire(id) ==
    /\ rq_job[id] # "none"
    /\ rq_job' = [rq_job EXCEPT ![id] = "none"]
    /\ last' = NoCall
    /\ UNCHANGED << service_vars, observed, delete_calls, tasks, task_result_keys, redis_metadata, redis_result_key,
                    rq_results, single_use_results, removal, issued, deleted,
                    reported_terminal, orphan_msg, watchdog_published >>

\* The projection key reaches its TTL (ex=metadata_ttl).
ProjectionExpire(id) ==
    /\ redis_metadata[id] # NoMeta
    /\ redis_metadata' = [redis_metadata EXCEPT ![id] = NoMeta]
    /\ last' = NoCall
    /\ UNCHANGED << service_vars, observed, delete_calls, tasks, task_result_keys, redis_result_key, rq_job, rq_results,
                    single_use_results, removal, issued, deleted, reported_terminal,
                    orphan_msg, watchdog_published >>

\* The result payload and the result-key pointer reach their TTL (ex=result_ttl).
ResultExpire(id) ==
    /\ id \in rq_results \cup redis_result_key
    /\ rq_results' = rq_results \ {id}
    /\ redis_result_key' = redis_result_key \ {id}
    /\ last' = NoCall
    /\ UNCHANGED << service_vars, observed, delete_calls, tasks, task_result_keys, redis_metadata, rq_job,
                    single_use_results, removal, issued, deleted, reported_terminal,
                    orphan_msg, watchdog_published >>

\* The server process restarts: the state after construction (empty maps, no
\* timers), with the Redis keys and the RQ jobs as they were.
Restart ==
    /\ \E id \in TaskIds : tasks[id] # NoTask \/ id \in task_result_keys \/ removal[id] > 0
    /\ tasks' = [id \in TaskIds |-> NoTask]
    /\ task_result_keys' = {}
    /\ removal' = [id \in TaskIds |-> 0]
    /\ last' = NoCall
    /\ UNCHANGED << service_vars, observed, delete_calls, redis_metadata, redis_result_key, rq_job, rq_results,
                    single_use_results, issued, deleted, reported_terminal, orphan_msg, watchdog_published >>

\* The coroutines that may run _ensure_queue_started: two RPCs and start().
Callers == {"rpc1", "rpc2", "start"}

\* close() not called: its position and the task it awaits.
NotClosing == [at |-> "idle", task |-> 0]

\* DoclingServeGrpcService.__init__: no queue task, the lock free, no caller
\* and no close() running.
ServiceConstructed ==
    /\ queue_task = 0
    /\ launched = << >>
    /\ queue_lock = "free"
    /\ pc = [c \in Callers |-> "idle"]
    /\ close_pc = NotClosing

\* The metadata keys _check_api_key reads, in the order it reads them.
Headers == << "api-key", "x-api-key", "api_key" >>

\* No RPC in flight.  An RPC is kept with its kind, whether its metadata
\* carries the configured key, the sources of its request, the sources it
\* passed to enqueue, the orchestrator operations it has invoked, its status
\* code, and what the service held when it arrived.
NoRpc == [kind |-> "none", has_key |-> FALSE, sources |-> << >>,
          enqueued |-> << >>, ops |-> << >>, code |-> "none",
          launched_before |-> 0, tasks_before |-> 0]

\* No synchronous wait in progress.
NoWait == [pc |-> "idle", start |-> 0, wake_at |-> 0, result |-> "none",
           code |-> "none", at_max |-> FALSE]

\* The ids uuid4 may hand out to the tasks of the engines.
EngineIds == {"e1", "e2", "e3"}

\* The integer standing for a queue position of None.
PositionNone == -1

\* No engine call made: the operation, its task id, its outcome, the position
\* returned, what the queue held for the id when the call was made, and the
\* status of the task before and after a call that refreshes it.
NoEngineCall == [op |-> "none", id |-> "none", outcome |-> "none",
                 position |-> PositionNone, waiting |-> 0, rank |-> PositionNone,
                 status_before |-> "none", status_after |-> "none"]

\* The gRPC service constructed and no request made.
GrpcIdle ==
    /\ ServiceConstructed
    /\ load_models_at_boot = FALSE
    /\ api_key = ""
    /\ rpc = NoRpc
    /\ orch_tasks = 0

\* No synchronous call waiting.
WaitIdle ==
    /\ sync_poll_interval = 1
    /\ max_sync_wait = 1
    /\ clock = 0
    /\ wait = NoWait
    /\ task_completed = FALSE

\* AsyncLocalOrchestrator.__init__ / AsyncRQOrchestrator.__init__: no task, an
\* empty queue.
EngineConstructed ==
    /\ eng_tasks = [i \in EngineIds |-> "absent"]
    /\ queue_list = << >>
    /\ task_queue = << >>
    /\ job_status = [i \in EngineIds |-> "none"]
    /\ eng_last = NoEngineCall

\* No stream open: nothing polled, nothing emitted.
NoStream == [pc |-> "idle", id |-> "none", emitted |-> << >>, polls |-> 0,
             disconnected |-> FALSE, end |-> "none"]

StreamIdle == stream = NoStream

\* No Task chosen for the projection round trip.
NoRoundTrip == [pc |-> "idle"]

\* The counters of a TaskProcessingMeta, all zero.
ZeroMeta == [num_docs |-> 0, num_processed |-> 0, num_success |-> 0, num_failed |-> 0]

\* A task just enqueued with the KFP engine: processing_meta is None and no
\* progress callback was received.
NoProgress == [has_meta |-> FALSE, meta |-> ZeroMeta,
               had_meta |-> FALSE, before |-> ZeroMeta,
               received |-> 0, callback |-> "none", outcome |-> "none",
               as_sent |-> TRUE]

\* DoclingServeGrpcService.__init__: self._requested_formats is empty; no
\* task has a result, none was cleared and no GetConvertResult was answered.
NoConvertRpc == [registered |-> {},
                 requested_formats |-> [id \in TaskIds |-> {}],
                 completed |-> {},
                 cleared |-> {},
                 content |-> [id \in TaskIds |-> {}],
                 responses |-> [id \in TaskIds |-> << >>]]

\* The coroutines that run task_status on the id.
StatusCallers == {"a", "b"}

\* The Task objects that may sit under the id in self.tasks: the one enqueue
\* stored, one an out-of-band publisher stores, and the placeholders of the
\* first and of the second queue query of each call.
TempTask(c, n) ==
    IF c = "a" THEN (IF n = 1 THEN "temp_a1" ELSE "temp_a2")
    ELSE (IF n = 1 THEN "temp_b1" ELSE "temp_b2")

Placeholders == {TempTask(c, n) : c \in StatusCallers, n \in 1..2}

TaskObjects == {"enqueued", "published"} \cup Placeholders

\* No object: the key is absent, a local is None.
NoObject == "absent"

\* A coroutine that has not called task_status.
NoStatusCall == [pc |-> "idle", original |-> NoObject, temp |-> NoObject, gone |-> FALSE]

\* One task enqueued and projected as pending, its job queued, no call made.
NoStatusCalls == [entry |-> "enqueued",
                  status |-> [o \in TaskObjects |-> PENDING],
                  job |-> "queued",
                  proj |-> PENDING,
                  call |-> [c \in StatusCallers |-> NoStatusCall],
                  stored_terminal |-> FALSE]

DataIdle ==
    /\ roundtrip = NoRoundTrip
    /\ progress = NoProgress
    /\ convert_rpc = NoConvertRpc
    /\ status_calls = NoStatusCalls

\* The engines of docling_serve/engines not in use.
EngineIdle ==
    /\ engine = "none"
    /\ queue_max_size = 0
    /\ EngineConstructed

\* RedisAwareRQOrchestrator constructed: empty maps, no timers, nothing in Redis.
Init ==
    /\ tasks = [id \in TaskIds |-> NoTask]
    /\ task_result_keys = {}
    /\ redis_metadata = [id \in TaskIds |-> NoMeta]
    /\ redis_result_key = {}
    /\ rq_job = [id \in TaskIds |-> "none"]
    /\ rq_results = {}
    /\ single_use_results \in BOOLEAN
    /\ removal = [id \in TaskIds |-> 0]
    /\ issued = {}
    /\ deleted = {}
    /\ delete_calls = [id \in TaskIds |-> 0]
    /\ reported_terminal = {}
    /\ orphan_msg = [id \in TaskIds |-> "none"]
    /\ watchdog_published = {}
    /\ last = NoCall
    /\ observed = [id \in TaskIds |-> NoObservation]
    /\ GrpcIdle
    /\ StreamIdle
    /\ DataIdle
    /\ WaitIdle
    /\ EngineIdle

\* The steps that read or write what TaskStatus reads: the in-memory task, the
\* projection and the RQ job.
StatusStep(id) ==
    \/ \E fail1, fail2, fail3 \in BOOLEAN : TaskStatus(id, fail1, fail2, fail3)
    \/ \E fail1, fail2, fail3 \in BOOLEAN : PeerTaskStatus(id, fail1, fail2, fail3)
    \/ \E sources \in RequestSources : Enqueue(id, sources)
    \/ Age(id)
    \/ WatchdogFailure(id)
    \/ WorkerStart(id)
    \/ \E ok \in BOOLEAN : WorkerFinish(id, ok)
    \/ JobExpire(id)
    \/ ProjectionExpire(id)

\* Result retrieval and single-use removal.
ResultStep(id) ==
    \/ FetchResult(id)
    \/ RemoveTaskImpl(id)
    \/ ResultExpire(id)

Next ==
    \/ \E id \in TaskIds : StatusStep(id)
    \/ \E id \in TaskIds : ResultStep(id)
    \/ ReapZombieTasks
    \/ Restart

Spec == Init /\ [][Next]_vars

(***************************************************************************)
(* Liveness: the client keeps polling and its RQ queries eventually go     *)
(* through; the queue service eventually starts, finishes, fails or drops  *)
(* a job that is queued or started (job timeout, registry cleanup).        *)
(***************************************************************************)

\* The step just made was a TaskStatus call of this process.
StatusCall == last.op = "status"

\* A TaskStatus call none of whose RQ queries fails.
PollOk(id) == TaskStatus(id, FALSE, FALSE, FALSE)

\* The queue service moves a queued or started job on.
QueueResolves(id) ==
    \/ WorkerStart(id)
    \/ \E ok \in BOOLEAN : WorkerFinish(id, ok)
    \/ (rq_job[id] \in {"queued", "started"} /\ JobExpire(id))

Fairness == \A id \in TaskIds : WF_vars(PollOk(id)) /\ WF_vars(QueueResolves(id))

SpecLive == Init /\ [][Next]_vars /\ Fairness

\* The step just made was a TaskStatus call, of this process or of a peer.
AnyStatusCall == last.op \in {"status", "peer_status"}

ReturnsTerminal(id) ==
    AnyStatusCall /\ last.id = id /\ last.kind = "task" /\ last.task_status \in Terminal

ReturnsNonTerminal(id) ==
    AnyStatusCall /\ last.id = id /\ last.kind = "task" /\ last.task_status \in NonTerminal

ReturnsNotFound(id) ==
    AnyStatusCall /\ last.id = id /\ last.kind = "notfound"

C1_OrphanReclassified ==
    (StatusCall /\ last.rq = "gone" /\ last.proj_before.task_status \in NonTerminal)
    => /\ last.kind = "task"
       /\ last.task_status = FAILURE
       /\ IsOrphanMessage(last.error_message)
       /\ redis_metadata[last.id] = [task_status |-> FAILURE,
                                     error_message |-> last.error_message]
       /\ tasks[last.id] = NoTask
       /\ last.id \notin task_result_keys

C1_Witness ==
    /\ StatusCall /\ last.rq = "gone"
    /\ last.proj_before.task_status = STARTED
    /\ last.mem_before \in NonTerminal
    /\ last.task_status = FAILURE

C3_CachedTerminalNotStomped ==
    (StatusCall /\ last.mem_before \in Terminal)
    => /\ last.kind = "task"
       /\ last.task_status = last.mem_before
       /\ tasks[last.id].task_status = last.mem_before
       /\ redis_metadata[last.id].task_status = last.mem_before

C3_Witness ==
    /\ StatusCall /\ last.mem_before = FAILURE
    /\ rq_job[last.id] = "started"
    /\ last.proj_before.task_status = STARTED

\* C5 (as stated): after a call has reclassified a task as an orphaned
\* failure, every TaskStatus call for it made while the job is gone and the
\* projection is there returns failure with the error_message of the
\* reclassification.
C5_SameSnapshotAlways ==
    (StatusCall /\ orphan_msg[last.id] # "none" /\ rq_job[last.id] = "none"
                /\ last.proj_before # NoMeta)
    => /\ last.kind = "task"
       /\ last.task_status = FAILURE
       /\ last.error_message = orphan_msg[last.id]

\* C5 (amended): after a call has reclassified a task as an orphaned failure,
\* every TaskStatus call for it made while the job is gone and the projection
\* is there returns a terminal task, never pending, started or TaskNotFound;
\* unless a terminal status was published into a process's in-memory map by
\* another path, it is the failure with the error_message of the
\* reclassification.
C5_OrphanSnapshotStable ==
    (StatusCall /\ orphan_msg[last.id] # "none" /\ rq_job[last.id] = "none"
                /\ last.proj_before # NoMeta)
    => /\ last.kind = "task"
       /\ last.task_status \in Terminal
       /\ (last.id \notin watchdog_published
             => /\ last.task_status = FAILURE
                /\ last.error_message = orphan_msg[last.id])

C5_Witness ==
    /\ StatusCall /\ orphan_msg[last.id] # "none"
    /\ last.id \notin watchdog_published
    /\ last.rq = "gone"
    /\ last.proj_before.task_status = FAILURE
    /\ last.error_message = orphan_msg[last.id]

\* C6: a TaskStatus call fails with TaskNotFound only for a task that has no
\* job in the queue.
C6_NotFoundOnlyWithoutJob ==
    (StatusCall /\ last.kind = "notfound") => rq_job[last.id] = "none"

\* C7: when the queue reports the job gone and the projection has no record,
\* TaskStatus fails with TaskNotFound and the in-memory map has no entry for
\* the id afterwards.
C7_TrulyGoneDropsEntry ==
    (StatusCall /\ last.rq = "gone" /\ last.proj_before = NoMeta)
    => /\ last.kind = "notfound"
       /\ tasks[last.id] = NoTask

C7_Witness ==
    /\ StatusCall /\ last.rq = "gone" /\ last.proj_before = NoMeta
    /\ last.mem_before \in NonTerminal
    /\ last.kind = "notfound"

\* C8: when the queue reports the job gone and the projection holds a terminal
\* task, TaskStatus returns the projected status and error_message, the id is
\* in neither the in-memory map nor the result-key map afterwards, and the
\* projection is what it was.
C8_CompletedExpiredCleanup ==
    (StatusCall /\ last.rq = "gone" /\ last.proj_before.task_status \in Terminal)
    => /\ last.kind = "task"
       /\ last.task_status = last.proj_before.task_status
       /\ last.error_message = last.proj_before.error_message
       /\ tasks[last.id] = NoTask
       /\ last.id \notin task_result_keys
       /\ redis_metadata[last.id] = last.proj_before

C8_Witness ==
    /\ StatusCall /\ last.rq = "gone"
    /\ last.proj_before.task_status = SUCCESS
    /\ last.mem_before \in NonTerminal
    /\ last.key_before
    /\ last.task_status = SUCCESS

\* C9: when the RQ query of a TaskStatus call answers with a status (pending,
\* started, success or failure) and no RQ query of the call fails, the call
\* returns a task with that status.
C9_QueueStatusReturned ==
    (StatusCall /\ last.q1 \in Terminal \cup NonTerminal /\ last.q2 # "error")
    => /\ last.kind = "task"
       /\ last.task_status = last.q1

\* C10: with single_use_results on, once the removal scheduled by a result
\* fetch has run, TaskStatus fails with TaskNotFound.
C10_SingleUseRemoved ==
    (StatusCall /\ single_use_results /\ last.id \in deleted)
    => last.kind = "notfound"

\* C11: for each task, delete_task is invoked by the single-use removal at
\* most once, however many times the result was fetched before the delay ran out.
C11_DeleteAtMostOnce ==
    \A id \in TaskIds : delete_calls[id] <= 1

\* The step just made was an enqueue call that returned a Task.
EnqueueReturned == last.op = "enqueue" /\ last.kind = "task"

C13_EmptySourcesRejected ==
    (last.op = "enqueue" /\ last.sources = << >>)
    => /\ last.kind = "invalid"
       /\ tasks[last.id] = NoTask
       /\ rq_job[last.id] = "none"
       /\ redis_metadata[last.id] = NoMeta

(***************************************************************************)
(* The engines under docling_serve/engines.  AsyncLocalOrchestrator keeps  *)
(* its tasks, an asyncio.Queue of task ids and queue_list in the process;  *)
(* AsyncRQOrchestrator keeps its tasks in the process and pushes one RQ    *)
(* job per task.  The process runs one of the two (variable engine).       *)
(***************************************************************************)

\* The largest queue_max_size a deployment is given here (0: unbounded).
MaxQueueMaxSize == 2

\* docling_serve_settings.eng_loc_num_workers.
NumWorkers == 2

\* list.index: the 0-based index of the first occurrence of x in seq.
IndexOf(seq, x) == (CHOOSE i \in 1..Len(seq) : seq[i] = x /\ \A j \in 1..(i - 1) : seq[j] # x) - 1

\* x in seq
Contains(seq, x) == \E i \in 1..Len(seq) : seq[i] = x

\* seq without its occurrences of x.
Without(seq, x) == SelectSeq(seq, LAMBDA y : y # x)

\* The rank a task has among the tasks waiting in the queue, from 1, or
\* PositionNone when it is not waiting.
RankOf(id) == IF Contains(task_queue, id) THEN IndexOf(task_queue, id) + 1 ELSE PositionNone

engine_frame == << rq_vars, stream_vars, data_vars, queue_vars, rpc_vars, wait_vars, engine, queue_max_size >>

\* AsyncLocalOrchestrator.enqueue: a uuid4, the Task stored (pending), the id
\* appended to queue_list and put on the asyncio.Queue(), the Task returned.
LocalEnqueue(id) ==
    /\ engine = "local"
    /\ eng_tasks[id] = "absent"
    /\ eng_tasks' = [eng_tasks EXCEPT ![id] = PENDING]
    /\ queue_list' = Append(queue_list, id)
    /\ task_queue' = Append(task_queue, id)
    /\ eng_last' = [NoEngineCall EXCEPT !.op = "enqueue", !.id = id, !.outcome = PENDING,
                                        !.waiting = Len(task_queue)]
    /\ UNCHANGED << engine_frame, job_status >>

\* AsyncLocalOrchestrator.get_queue_position.
LocalGetQueuePosition(id) ==
    /\ engine = "local"
    /\ eng_last' = [NoEngineCall EXCEPT
                        !.op = "position", !.id = id, !.outcome = "returned",
                        !.position = IF Contains(queue_list, id)
                                     THEN IndexOf(queue_list, id) + 1
                                     ELSE PositionNone,
                        !.rank = RankOf(id)]
    /\ UNCHANGED << engine_frame, eng_tasks, queue_list, task_queue, job_status >>

\* AsyncLocalOrchestrator.task_status.
LocalTaskStatus(id) ==
    /\ engine = "local"
    /\ eng_last' = [NoEngineCall EXCEPT
                        !.op = "status", !.id = id,
                        !.outcome = IF eng_tasks[id] = "absent" THEN "TaskNotFoundError"
                                    ELSE eng_tasks[id]]
    /\ UNCHANGED << engine_frame, eng_tasks, queue_list, task_queue, job_status >>

\* AsyncLocalOrchestrator.task_result: TaskNotFoundError for an id that is not
\* in self.tasks, else the task's result (None until the worker stores one).
LocalTaskResultOutcome(ts, id) ==
    IF ts[id] = "absent" THEN "TaskNotFoundError"
    ELSE IF ts[id] = SUCCESS THEN "result" ELSE "nil"

LocalTaskResult(id) ==
    /\ engine = "local"
    /\ eng_last' = [NoEngineCall EXCEPT !.op = "result", !.id = id,
                                        !.outcome = LocalTaskResultOutcome(eng_tasks, id)]
    /\ UNCHANGED << engine_frame, eng_tasks, queue_list, task_queue, job_status >>

\* AsyncLocalWorker.loop, first half: a free worker receives the next task id
\* from the queue, the id leaves queue_list, the task is marked started.
LocalWorkerReceive ==
    /\ engine = "local"
    /\ task_queue # << >>
    /\ Cardinality({i \in EngineIds : eng_tasks[i] = STARTED}) < NumWorkers
    /\ LET id == Head(task_queue)
       IN  /\ task_queue' = Tail(task_queue)
           /\ queue_list' = Without(queue_list, id)
           /\ eng_tasks' = [eng_tasks EXCEPT ![id] = STARTED]
    /\ eng_last' = NoEngineCall
    /\ UNCHANGED << engine_frame, job_status >>

\* AsyncLocalWorker.loop, second half: the conversion ends, the task is marked
\* success (with its result) or failure.
LocalWorkerComplete(id, ok) ==
    /\ engine = "local"
    /\ eng_tasks[id] = STARTED
    /\ eng_tasks' = [eng_tasks EXCEPT ![id] = IF ok THEN SUCCESS ELSE FAILURE]
    /\ eng_last' = NoEngineCall
    /\ UNCHANGED << engine_frame, queue_list, task_queue, job_status >>

\* AsyncRQOrchestrator.enqueue: a uuid4, the Task stored (pending), the job
\* pushed on conversion_queue with job_id = task_id.
RqEnqueue(id) ==
    /\ engine = "rq"
    /\ eng_tasks[id] = "absent"
    /\ job_status[id] = "none"
    /\ eng_tasks' = [eng_tasks EXCEPT ![id] = PENDING]
    /\ job_status' = [job_status EXCEPT ![id] = "queued"]
    /\ task_queue' = Append(task_queue, id)
    /\ eng_last' = [NoEngineCall EXCEPT !.op = "enqueue", !.id = id, !.outcome = PENDING,
                                        !.waiting = Len(task_queue)]
    /\ UNCHANGED << engine_frame, queue_list >>

\* Job.get_position: the 0-based index of the job in its queue, None
\* (PositionNone) when the job is not in the queue.
JobGetPosition(queue, id) ==
    IF Contains(queue, id) THEN IndexOf(queue, id) ELSE PositionNone

\* AsyncRQOrchestrator.get_queue_position, the return statement:
\* queue_pos + 1 if queue_pos is not None else 0.
RqPositionReturned(queue_pos) ==
    IF queue_pos # PositionNone THEN queue_pos + 1 ELSE 0

\* AsyncRQOrchestrator.get_queue_position: Job.fetch, the job's status written
\* to self.tasks[task_id], the position returned; any exception (no such job,
\* no such task) is logged and None returned.
RqGetQueuePosition(id) ==
    /\ engine = "rq"
    /\ IF job_status[id] = "none" \/ eng_tasks[id] = "absent"
       THEN /\ eng_last' = [NoEngineCall EXCEPT !.op = "position", !.id = id,
                                                !.outcome = "returned",
                                                !.rank = RankOf(id)]
            /\ UNCHANGED eng_tasks
       ELSE /\ eng_tasks' = [eng_tasks EXCEPT ![id] = JobToStatus(job_status[id])]
            /\ eng_last' = [NoEngineCall EXCEPT
                                !.op = "position", !.id = id, !.outcome = "returned",
                                !.position = RqPositionReturned(JobGetPosition(task_queue, id)),
                                !.rank = RankOf(id),
                                !.status_before = eng_tasks[id],
                                !.status_after = JobToStatus(job_status[id])]
    /\ UNCHANGED << engine_frame, queue_list, task_queue, job_status >>

\* An RQ worker takes the first job of the queue.
RqWorkerStart ==
    /\ engine = "rq"
    /\ task_queue # << >>
    /\ job_status' = [job_status EXCEPT ![Head(task_queue)] = "started"]
    /\ task_queue' = Tail(task_queue)
    /\ eng_last' = NoEngineCall
    /\ UNCHANGED << engine_frame, eng_tasks, queue_list >>

\* An RQ worker ends its job.
RqWorkerFinish(id, ok) ==
    /\ engine = "rq"
    /\ job_status[id] = "started"
    /\ job_status' = [job_status EXCEPT ![id] = IF ok THEN "finished" ELSE "failed"]
    /\ eng_last' = NoEngineCall
    /\ UNCHANGED << engine_frame, eng_tasks, queue_list, task_queue >>

\* The engine's process starts with queue_max_size configured.
EngineInit ==
    /\ engine \in {"local", "rq"}
    /\ queue_max_size \in 0..MaxQueueMaxSize
    /\ EngineConstructed

\* The rest of the server at rest.
InitEngines ==
    /\ tasks = [id \in TaskIds |-> NoTask]
    /\ task_result_keys = {}
    /\ redis_metadata = [id \in TaskIds |-> NoMeta]
    /\ redis_result_key = {}
    /\ rq_job = [id \in TaskIds |-> "none"]
    /\ rq_results = {}
    /\ single_use_results = FALSE
    /\ removal = [id \in TaskIds |-> 0]
    /\ issued = {}
    /\ deleted = {}
    /\ delete_calls = [id \in TaskIds |-> 0]
    /\ reported_terminal = {}
    /\ orphan_msg = [id \in TaskIds |-> "none"]
    /\ watchdog_published = {}
    /\ last = NoCall
    /\ observed = [id \in TaskIds |-> NoObservation]
    /\ GrpcIdle
    /\ StreamIdle
    /\ DataIdle
    /\ WaitIdle
    /\ EngineInit

LocalStep(id) ==
    \/ LocalEnqueue(id)
    \/ LocalGetQueuePosition(id)
    \/ LocalTaskStatus(id)
    \/ LocalTaskResult(id)
    \/ \E ok \in BOOLEAN : LocalWorkerComplete(id, ok)

RqStep(id) ==
    \/ RqEnqueue(id)
    \/ RqGetQueuePosition(id)
    \/ \E ok \in BOOLEAN : RqWorkerFinish(id, ok)

NextEngines ==
    \/ \E id \in EngineIds : LocalStep(id)
    \/ LocalWorkerReceive
    \/ \E id \in EngineIds : RqStep(id)
    \/ RqWorkerStart

SpecEngines == InitEngines /\ [][NextEngines]_vars

\* C14: with queue_max_size = N > 0, an enqueue call of the local engine made
\* while N tasks are waiting in the queue fails with QueueFull and creates no task, and one made
\* while fewer are waiting returns a pending Task.
C14_QueueFullWhenSaturated ==
    (engine = "local" /\ eng_last.op = "enqueue" /\ queue_max_size > 0)
    => IF eng_last.waiting >= queue_max_size
       THEN eng_last.outcome = "QueueFull" /\ eng_tasks[eng_last.id] = "absent"
       ELSE eng_last.outcome = PENDING

\* C17: task_result for an id that has no record returns None and raises no
\* error.
C17_UnknownResultIsNil ==
    (eng_last.op = "result" /\ eng_tasks[eng_last.id] = "absent")
    => eng_last.outcome = "nil"

\* C18: get_queue_position returns the task's rank, from 1, among the tasks
\* waiting, and None, never 0, for a task that is not waiting: started,
\* terminal or unknown.
C18_PositionIsRankOrNil ==
    (eng_last.op = "position")
    => /\ eng_last.position # 0
       /\ eng_last.position = eng_last.rank

(***************************************************************************)
(* The queue-processing task of the gRPC service.  Every submitting RPC    *)
(* and start() run _ensure_queue_started; the coroutines interleave at     *)
(* its await points (the lock, warm_up_caches).  The process_queue task    *)
(* may end at any time; close() cancels it at shutdown.                    *)
(***************************************************************************)

\* How many process_queue tasks are created at most.
MaxLaunched == 3

\* asyncio.Task.done() of the k-th task created.
Done(k) == launched[k] = "done"

\* self._queue_task is not None and not self._queue_task.done()
QueueRunning == queue_task # 0 /\ ~Done(queue_task)

\* The process_queue tasks that have not ended.
LiveTasks == {k \in 1..Len(launched) : ~Done(k)}

queue_frame == << rq_vars, stream_vars, data_vars, rpc_vars, wait_vars, engine_vars, load_models_at_boot >>

\* A caller enters _ensure_queue_started.
EnsureBegin(c) ==
    /\ pc[c] = "idle"
    /\ pc' = [pc EXCEPT ![c] = "check"]
    /\ UNCHANGED << queue_frame, queue_task, launched, queue_lock, close_pc >>

\* The check made before taking the lock: return when the task is running.
EnsureCheck(c) ==
    /\ pc[c] = "check"
    /\ pc' = [pc EXCEPT ![c] = IF QueueRunning THEN "ensured" ELSE "lock"]
    /\ UNCHANGED << queue_frame, queue_task, launched, queue_lock, close_pc >>

\* async with self._queue_lock: the caller gets the lock once it is free.
EnsureAcquire(c) ==
    /\ pc[c] = "lock"
    /\ queue_lock = "free"
    /\ queue_lock' = c
    /\ pc' = [pc EXCEPT ![c] = "locked"]
    /\ UNCHANGED << queue_frame, queue_task, launched, close_pc >>

\* Mutant: the check is not repeated under the lock.
AfterRecheck_NoRecheck(running) ==
    IF load_models_at_boot THEN "warm" ELSE "launch"

\* Where the caller goes after the check repeated under the lock.
AfterRecheck(running) ==
    IF running THEN "ensured"
    ELSE IF load_models_at_boot THEN "warm" ELSE "launch"

\* The check repeated under the lock: return (releasing the lock) when the
\* task is running, else go on to warm up or to launch.
EnsureRecheck(c) ==
    /\ pc[c] = "locked"
    /\ pc' = [pc EXCEPT ![c] = AfterRecheck(QueueRunning)]
    /\ queue_lock' = IF AfterRecheck(QueueRunning) = "ensured" THEN "free" ELSE queue_lock
    /\ UNCHANGED << queue_frame, queue_task, launched, close_pc >>

\* await self._orchestrator.warm_up_caches(), the lock held.
EnsureWarmUp(c) ==
    /\ pc[c] = "warm"
    /\ pc' = [pc EXCEPT ![c] = "launch"]
    /\ UNCHANGED << queue_frame, queue_task, launched, queue_lock, close_pc >>

\* self._queue_task = asyncio.create_task(process_queue()); the lock released.
EnsureLaunch(c) ==
    /\ pc[c] = "launch"
    /\ Len(launched) < MaxLaunched
    /\ launched' = Append(launched, "running")
    /\ queue_task' = Len(launched) + 1
    /\ queue_lock' = "free"
    /\ pc' = [pc EXCEPT ![c] = "ensured"]
    /\ UNCHANGED << queue_frame, close_pc >>

\* start() returns; an RPC goes on with its request and returns.
CallReturns(c) ==
    /\ pc[c] = "ensured"
    /\ pc' = [pc EXCEPT ![c] = "idle"]
    /\ UNCHANGED << queue_frame, queue_task, launched, queue_lock, close_pc >>

\* process_queue returns or raises (AsyncRQOrchestrator.process_queue returns
\* at once; a cancelled task ends at its next await).
QueueTaskEnds(k) ==
    /\ k <= Len(launched)
    /\ launched[k] # "done"
    /\ launched' = [launched EXCEPT ![k] = "done"]
    /\ UNCHANGED << queue_frame, queue_task, queue_lock, pc, close_pc >>

\* close(), up to its await: nothing to do without a task, else the task is
\* cancelled and awaited.
CloseBegin ==
    /\ close_pc.at = "idle"
    /\ IF queue_task = 0
       THEN /\ close_pc' = [at |-> "closed", task |-> 0]
            /\ UNCHANGED launched
       ELSE /\ close_pc' = [at |-> "awaiting", task |-> queue_task]
            /\ launched' = [launched EXCEPT ![queue_task] =
                                IF @ = "running" THEN "cancelling" ELSE @]
    /\ UNCHANGED << queue_frame, queue_task, queue_lock, pc >>

\* close(), after its await: the awaited task has ended, self._queue_task = None.
CloseEnd ==
    /\ close_pc.at = "awaiting"
    /\ Done(close_pc.task)
    /\ queue_task' = 0
    /\ close_pc' = [close_pc EXCEPT !.at = "closed"]
    /\ UNCHANGED << queue_frame, launched, queue_lock, pc >>

\* The service constructed, with load_models_at_boot as configured.
InitQueue ==
    /\ tasks = [id \in TaskIds |-> NoTask]
    /\ task_result_keys = {}
    /\ redis_metadata = [id \in TaskIds |-> NoMeta]
    /\ redis_result_key = {}
    /\ rq_job = [id \in TaskIds |-> "none"]
    /\ rq_results = {}
    /\ single_use_results = FALSE
    /\ removal = [id \in TaskIds |-> 0]
    /\ issued = {}
    /\ deleted = {}
    /\ delete_calls = [id \in TaskIds |-> 0]
    /\ reported_terminal = {}
    /\ orphan_msg = [id \in TaskIds |-> "none"]
    /\ watchdog_published = {}
    /\ last = NoCall
    /\ observed = [id \in TaskIds |-> NoObservation]
    /\ ServiceConstructed
    /\ load_models_at_boot \in BOOLEAN
    /\ api_key = ""
    /\ rpc = NoRpc
    /\ orch_tasks = 0
    /\ WaitIdle
    /\ StreamIdle
    /\ DataIdle
    /\ EngineIdle

EnsureQueueStarted(c) ==
    \/ EnsureBegin(c)
    \/ EnsureCheck(c)
    \/ EnsureAcquire(c)
    \/ EnsureRecheck(c)
    \/ EnsureWarmUp(c)
    \/ EnsureLaunch(c)

NextQueue ==
    \/ \E c \in Callers : EnsureQueueStarted(c)
    \/ \E c \in Callers : CallReturns(c)
    \/ \E k \in 1..MaxLaunched : QueueTaskEnds(k)
    \/ CloseBegin
    \/ CloseEnd

SpecQueue == InitQueue /\ [][NextQueue]_vars

MaxPollInterval == 2
MaxSyncWait == 2

\* How far the clock runs.
MaxClock == 4

wait_frame == << rq_vars, stream_vars, data_vars, queue_vars, rpc_vars, engine_vars, sync_poll_interval, max_sync_wait >>

\* loop.time() - start
Elapsed == clock - wait.start

\* _wait_task_complete is entered: start = loop.time().
WaitBegin ==
    /\ wait.pc = "idle"
    /\ wait' = [wait EXCEPT !.pc = "poll", !.start = clock]
    /\ UNCHANGED << wait_frame, clock, task_completed >>

\* task = await task_status(task_id); return True when it is completed, else
\* asyncio.sleep(sync_poll_interval).
WaitPoll ==
    /\ wait.pc = "poll"
    /\ wait' = IF task_completed
               THEN [wait EXCEPT !.pc = "returned", !.result = "completed"]
               ELSE [wait EXCEPT !.pc = "sleep", !.wake_at = clock + sync_poll_interval]
    /\ UNCHANGED << wait_frame, clock, task_completed >>

TimedOut_Never(elapsed) == FALSE

\* docling_serve_settings.max_sync_wait and (elapsed > max_sync_wait)
TimedOut(elapsed) ==
    max_sync_wait # 0 /\ elapsed > max_sync_wait

\* The sleep is over and the elapsed time is measured: return False when the
\* bound is exceeded, else poll again.  The call is marked when the elapsed
\* time it measures equals max_sync_wait while its task is not completed.
WaitWake ==
    /\ wait.pc = "sleep"
    /\ clock >= wait.wake_at
    /\ wait' = [wait EXCEPT
                    !.pc = IF TimedOut(Elapsed) THEN "returned" ELSE "poll",
                    !.result = IF TimedOut(Elapsed) THEN "timeout" ELSE @,
                    !.at_max = @ \/ (Elapsed = max_sync_wait /\ ~task_completed)]
    /\ UNCHANGED << wait_frame, clock, task_completed >>

\* ConvertSource after the wait: DEADLINE_EXCEEDED when the wait returned
\* False, else the result is fetched: NOT_FOUND without one, else the response.
SyncCallResponds(found) ==
    /\ wait.pc = "returned"
    /\ wait' = [wait EXCEPT !.pc = "responded",
                            !.code = IF wait.result = "timeout" THEN "DEADLINE_EXCEEDED"
                                     ELSE IF found THEN "OK" ELSE "NOT_FOUND"]
    /\ UNCHANGED << wait_frame, clock, task_completed >>

\* A time stamp seen one tick later from a clock that stays at MaxClock; a
\* start older than max_sync_wait + 1 ticks is kept at that age, which every
\* comparison of the loop tells apart in the same way.
Aged(stamp, floor) == IF stamp - 1 < floor THEN floor ELSE stamp - 1

\* The loop clock advances by one tick.  Up to MaxClock the clock counts; from
\* there on the time stamps of a running wait are moved back by one instead.
Tick ==
    /\ IF clock < MaxClock
       THEN /\ clock' = clock + 1
            /\ wait' = wait
       ELSE /\ clock' = clock
            /\ wait' = IF wait.pc \in {"poll", "sleep"}
                       THEN [wait EXCEPT !.start = Aged(@, MaxClock - MaxSyncWait - 1),
                                         !.wake_at = Aged(@, 0)]
                       ELSE wait
    /\ UNCHANGED << wait_frame, task_completed >>

\* The worker brings the task to a terminal status.
TaskCompletes ==
    /\ ~task_completed
    /\ task_completed' = TRUE
    /\ UNCHANGED << wait_frame, clock, wait >>

\* The service configured, the task of a synchronous call enqueued.
InitWait ==
    /\ tasks = [id \in TaskIds |-> NoTask]
    /\ task_result_keys = {}
    /\ redis_metadata = [id \in TaskIds |-> NoMeta]
    /\ redis_result_key = {}
    /\ rq_job = [id \in TaskIds |-> "none"]
    /\ rq_results = {}
    /\ single_use_results = FALSE
    /\ removal = [id \in TaskIds |-> 0]
    /\ issued = {}
    /\ deleted = {}
    /\ delete_calls = [id \in TaskIds |-> 0]
    /\ reported_terminal = {}
    /\ orphan_msg = [id \in TaskIds |-> "none"]
    /\ watchdog_published = {}
    /\ last = NoCall
    /\ observed = [id \in TaskIds |-> NoObservation]
    /\ GrpcIdle
    /\ StreamIdle
    /\ DataIdle
    /\ EngineIdle
    /\ sync_poll_interval \in 1..MaxPollInterval
    /\ max_sync_wait \in 0..MaxSyncWait
    /\ clock = 0
    /\ wait = NoWait
    /\ task_completed = FALSE

NextWait ==
    \/ WaitBegin
    \/ WaitPoll
    \/ WaitWake
    \/ \E found \in BOOLEAN : SyncCallResponds(found)
    \/ Tick
    \/ TaskCompletes

SpecWait == InitWait /\ [][NextWait]_vars

\* The event loop runs every coroutine that is ready and time passes; the
\* worker owes nothing: a task may stay non-terminal for ever.
FairnessWait == WF_vars(WaitPoll) /\ WF_vars(WaitWake) /\ WF_vars(Tick)

SpecWaitLive == SpecWait /\ FairnessWait

\* C20: with max_sync_wait > 0, a synchronous call that measured an elapsed
\* wait equal to max_sync_wait while its task was not completed answers
\* DEADLINE_EXCEEDED.
C20_TimeoutAtMaxSyncWait ==
    (wait.pc = "responded" /\ max_sync_wait > 0 /\ wait.at_max)
    => wait.code = "DEADLINE_EXCEEDED"

(***************************************************************************)
(* The RPCs of the gRPC service, one at a time: the API-key check, the     *)
(* start of the queue processor, the conversion of the request's sources   *)
(* and the orchestrator operations each handler invokes.  The Chunk* RPCs  *)
(* follow their Convert* counterparts step for step.                       *)
(***************************************************************************)

\* The handlers, by the shape of their code.
SubmitKinds == {"ConvertSource", "ConvertSourceAsync", "ConvertSourceStream",
                "WatchConvertSource"}

ServeKinds == {"PollTaskStatus", "GetConvertResult", "ClearConverters", "ClearResults"}

RpcKinds == {"Health"} \cup SubmitKinds \cup ServeKinds

\* The value a metadata key may carry: none (or empty), the configured key,
\* another key.
KeyValues == {"", "secret", "wrong"}

Metadata == [{Headers[i] : i \in 1..Len(Headers)} -> KeyValues]

\* The oneof variant of a Source message; "unset" when no variant is set.
ProtoSourceKinds == {"file", "http", "s3", "unset"}

\* How many sources a request carries, and how many tasks the orchestrator holds, at most.
MaxProtoSources == 2
MaxOrchTasks == 2

\* metadata.get("api-key") or metadata.get("x-api-key") or metadata.get("api_key")
PresentedKey(metadata) ==
    IF metadata[Headers[1]] # "" THEN metadata[Headers[1]]
    ELSE IF metadata[Headers[2]] # "" THEN metadata[Headers[2]]
    ELSE metadata[Headers[3]]

\* Mutant: a request that presents no key at all is let through.
CheckApiKey_AcceptsMissing(metadata) ==
    IF api_key = "" THEN "ok"
    ELSE IF PresentedKey(metadata) # "" /\ PresentedKey(metadata) # api_key
    THEN "UNAUTHENTICATED"
    ELSE "ok"

\* _check_api_key: no check without a configured key, else the abort with
\* UNAUTHENTICATED unless the presented key equals the configured one.
CheckApiKey(metadata) ==
    IF api_key = "" THEN "ok"
    ELSE IF PresentedKey(metadata) # api_key THEN "UNAUTHENTICATED"
    ELSE "ok"

RECURSIVE ToTaskSources(_)
\* to_task_sources: a file, http or s3 source is converted and appended; a
\* source of any other kind adds nothing.
ToTaskSources(proto_sources) ==
    IF proto_sources = << >> THEN << >>
    ELSE LET kind == Head(proto_sources)
             rest == ToTaskSources(Tail(proto_sources))
         IN  IF kind \in {"file", "http", "s3"} THEN << kind >> \o rest ELSE rest

rpc_frame == << rq_vars, stream_vars, data_vars, wait_vars, engine_vars, load_models_at_boot, api_key,
                queue_task, launched, queue_lock, close_pc >>

\* An RPC arrives and its handler runs up to its first await after
\* _check_api_key: aborted, answered (Health), or on to the next step.
RpcBegin(kind, metadata, sources) ==
    /\ pc["rpc1"] = "idle"
    /\ rpc' = [NoRpc EXCEPT
                  !.kind = kind,
                  !.has_key = \E i \in 1..Len(Headers) : metadata[Headers[i]] = api_key,
                  !.sources = sources,
                  !.code = IF CheckApiKey(metadata) # "ok" THEN CheckApiKey(metadata)
                           ELSE IF kind = "Health" THEN "OK" ELSE "none",
                  !.launched_before = Len(launched),
                  !.tasks_before = orch_tasks]
    /\ pc' = [pc EXCEPT !["rpc1"] =
                 IF CheckApiKey(metadata) # "ok" \/ kind = "Health" THEN "ended"
                 ELSE IF kind \in SubmitKinds THEN "check"
                 ELSE "serve"]
    /\ UNCHANGED << rpc_frame, orch_tasks >>

\* The submitting handlers after _ensure_queue_started: the sources are
\* converted and the task is enqueued.
RpcEnqueue ==
    /\ pc["rpc1"] = "ensured"
    /\ orch_tasks < MaxOrchTasks
    /\ orch_tasks' = orch_tasks + 1
    /\ rpc' = [rpc EXCEPT !.enqueued = ToTaskSources(rpc.sources),
                          !.ops = Append(@, "enqueue")]
    /\ pc' = [pc EXCEPT !["rpc1"] = "enqueued"]
    /\ UNCHANGED rpc_frame

\* The operations a submitting handler invokes after enqueue.
OpsAfterEnqueue(kind, completed, found) ==
    IF kind = "ConvertSourceAsync" THEN << "get_queue_position" >>
    ELSE IF kind = "WatchConvertSource" THEN << "task_status", "get_queue_position" >>
    ELSE IF ~completed THEN << "task_status" >>
    ELSE IF ~found THEN << "task_status", "task_result" >>
    ELSE IF single_use_results THEN << "task_status", "task_result", "delete_task" >>
    ELSE << "task_status", "task_result" >>

\* The status code of a submitting handler.
CodeAfterEnqueue(kind, completed, found) ==
    IF kind \in {"ConvertSourceAsync", "WatchConvertSource"} THEN "OK"
    ELSE IF ~completed THEN "DEADLINE_EXCEEDED"
    ELSE IF ~found THEN "NOT_FOUND"
    ELSE "OK"

\* The rest of a submitting handler: the position (async), the status stream
\* (watch), or the wait, the result and the single-use cleanup (sync).
RpcRespond(completed, found) ==
    /\ pc["rpc1"] = "enqueued"
    /\ rpc' = [rpc EXCEPT !.ops = @ \o OpsAfterEnqueue(rpc.kind, completed, found),
                          !.code = CodeAfterEnqueue(rpc.kind, completed, found)]
    /\ pc' = [pc EXCEPT !["rpc1"] = "ended"]
    /\ UNCHANGED << rpc_frame, orch_tasks >>

\* The operations of the handlers that submit nothing.
OpsOfServe(kind, found) ==
    IF kind = "PollTaskStatus"
    THEN IF found THEN << "task_status", "get_queue_position" >> ELSE << "task_status" >>
    ELSE IF kind = "GetConvertResult"
    THEN IF found /\ single_use_results THEN << "task_result", "delete_task" >>
         ELSE << "task_result" >>
    ELSE IF kind = "ClearConverters" THEN << "clear_converters" >>
    ELSE << "clear_results" >>

\* PollTaskStatus, GetConvertResult, ClearConverters, ClearResults.
RpcServe(found) ==
    /\ pc["rpc1"] = "serve"
    /\ rpc' = [rpc EXCEPT
                  !.ops = OpsOfServe(rpc.kind, found),
                  !.code = IF rpc.kind \in {"PollTaskStatus", "GetConvertResult"} /\ ~found
                           THEN "NOT_FOUND" ELSE "OK"]
    /\ orch_tasks' = IF rpc.kind = "ClearResults" /\ found THEN 0 ELSE orch_tasks
    /\ pc' = [pc EXCEPT !["rpc1"] = "ended"]
    /\ UNCHANGED rpc_frame

\* The response or the status has gone to the client.
RpcEnd ==
    /\ pc["rpc1"] = "ended"
    /\ rpc' = NoRpc
    /\ pc' = [pc EXCEPT !["rpc1"] = "idle"]
    /\ UNCHANGED << rpc_frame, orch_tasks >>

\* The service constructed and configured.
InitGrpc ==
    /\ tasks = [id \in TaskIds |-> NoTask]
    /\ task_result_keys = {}
    /\ redis_metadata = [id \in TaskIds |-> NoMeta]
    /\ redis_result_key = {}
    /\ rq_job = [id \in TaskIds |-> "none"]
    /\ rq_results = {}
    /\ single_use_results \in BOOLEAN
    /\ removal = [id \in TaskIds |-> 0]
    /\ issued = {}
    /\ deleted = {}
    /\ delete_calls = [id \in TaskIds |-> 0]
    /\ reported_terminal = {}
    /\ orphan_msg = [id \in TaskIds |-> "none"]
    /\ watchdog_published = {}
    /\ last = NoCall
    /\ observed = [id \in TaskIds |-> NoObservation]
    /\ ServiceConstructed
    /\ load_models_at_boot \in BOOLEAN
    /\ api_key \in {"", "secret"}
    /\ rpc = NoRpc
    /\ orch_tasks = 0
    /\ WaitIdle
    /\ StreamIdle
    /\ DataIdle
    /\ EngineIdle

\* The repeated field `sources` of a request.
ProtoSourceLists == Lists(ProtoSourceKinds, MaxProtoSources)

\* The sources a request of the given kind carries.
SourcesOf(kind) ==
    IF kind \in SubmitKinds THEN ProtoSourceLists ELSE {<< >>}

NextGrpc ==
    \/ \E kind \in RpcKinds, metadata \in Metadata :
          \E sources \in SourcesOf(kind) : RpcBegin(kind, metadata, sources)
    \/ EnsureCheck("rpc1")
    \/ EnsureAcquire("rpc1")
    \/ EnsureRecheck("rpc1")
    \/ EnsureWarmUp("rpc1")
    \/ EnsureLaunch("rpc1")
    \/ RpcEnqueue
    \/ \E completed, found \in BOOLEAN : RpcRespond(completed, found)
    \/ \E found \in BOOLEAN : RpcServe(found)
    \/ RpcEnd

SpecGrpc == InitGrpc /\ [][NextGrpc]_vars

\* An RPC is in the service whose request is of a submitting kind, passed the
\* key check and carries a source with no variant set.
HasUnsetSource ==
    /\ rpc.kind \in SubmitKinds
    /\ rpc.code # "UNAUTHENTICATED"
    /\ \E i \in 1..Len(rpc.sources) : rpc.sources[i] = "unset"

\* C15: a submitting RPC one of whose sources has no variant set, alone or
\* among valid sources, ends with INVALID_ARGUMENT and enqueues no task.
C15_UnsetSourceRejected ==
    HasUnsetSource
    => /\ orch_tasks = rpc.tasks_before
       /\ pc["rpc1"] = "ended" => rpc.code = "INVALID_ARGUMENT"

\* An RPC is in the service, an API key is configured and no metadata key of
\* the RPC carries it.
WithoutMatchingKey == rpc.kind # "none" /\ api_key # "" /\ ~rpc.has_key

\* C16: with an API key configured, an RPC of any kind that does not carry
\* the key is aborted with UNAUTHENTICATED and has invoked no orchestrator
\* operation: the tasks the orchestrator holds are those it held before, and
\* no process_queue task was created.
C16_UnauthenticatedAbortedFirst ==
    WithoutMatchingKey
    => /\ pc["rpc1"] = "ended"
       /\ rpc.code = "UNAUTHENTICATED"
       /\ rpc.ops = << >>
       /\ orch_tasks = rpc.tasks_before
       /\ Len(launched) = rpc.launched_before

\* A streaming RPC without the key is aborted while the orchestrator holds
\* the task of an earlier RPC.
C16_Witness ==
    /\ WithoutMatchingKey
    /\ rpc.kind = "WatchConvertSource"
    /\ rpc.code = "UNAUTHENTICATED"
    /\ orch_tasks = 1
    /\ Len(launched) = 1

WaitRunning == wait.pc \in {"poll", "sleep"}

WaitReturned == wait.pc \in {"returned", "responded"}

MaxSnapshots == 3

\* What the steps of the stream leave alone besides the stores of the engine.
stream_frame == << queue_vars, rpc_vars, wait_vars, engine_vars, data_vars >>

\* What a step of the stream that makes no orchestrator call leaves alone.
rq_state == << tasks, task_result_keys, redis_metadata, redis_result_key, rq_job,
               rq_results, single_use_results, removal, issued, deleted,
               reported_terminal, orphan_msg, watchdog_published, delete_calls,
               observed >>

\* WatchConvertSource after enqueue returned: the generator is created for
\* task.task_id.
StreamOpen(id) ==
    /\ stream.pc = "idle"
    /\ last.op = "enqueue"
    /\ last.id = id
    /\ stream' = [NoStream EXCEPT !.pc = "head", !.id = id]
    /\ last' = NoCall
    /\ UNCHANGED << stream_frame, rq_state >>

\* while not context.done()
StreamHead ==
    /\ stream.pc = "head"
    /\ stream' = IF stream.disconnected
                 THEN [stream EXCEPT !.pc = "ended", !.end = "disconnect"]
                 ELSE [stream EXCEPT !.pc = "poll"]
    /\ last' = NoCall
    /\ UNCHANGED << stream_frame, rq_state >>

\* Mutant: the generator sleeps and polls again after a completed snapshot.
AfterSnapshot_NeverReturns(st, status) ==
    [st EXCEPT !.pc = "sleep", !.emitted = Append(@, status)]

\* yield task_status_to_proto(task, position); if task.is_completed(): return;
\* else asyncio.sleep(sync_poll_interval)
AfterSnapshot(st, status) ==
    IF status \in Terminal
    THEN [st EXCEPT !.pc = "ended", !.end = "returned", !.emitted = Append(@, status)]
    ELSE [st EXCEPT !.pc = "sleep", !.emitted = Append(@, status)]

\* task = await task_status(task_id), position = await get_queue_position, and
\* the yield.  An exception of task_status (TaskNotFoundError, a queue error)
\* leaves the generator: the RPC fails.
StreamPoll(fail1, fail2, fail3) ==
    /\ stream.pc = "poll"
    /\ Len(stream.emitted) < MaxSnapshots
    /\ \E r \in {TaskStatusResult(Stores, stream.id, fail1, fail2, fail3)} :
       /\ tasks' = r.S.tasks
       /\ task_result_keys' = r.S.keys
       /\ redis_metadata' = r.S.meta
       /\ redis_result_key' = r.S.rkey
       /\ reported_terminal' = IF r.reported THEN reported_terminal \cup {stream.id}
                               ELSE reported_terminal
       /\ orphan_msg' = IF r.orphaned
                        THEN [orphan_msg EXCEPT ![stream.id] = r.ret.task.error_message]
                        ELSE orphan_msg
       /\ observed' = Observe(observed, stream.id, r.ret)
       /\ last' = [NoCall EXCEPT !.op = "stream_poll", !.id = stream.id,
                                 !.kind = r.ret.kind,
                                 !.task_status = r.ret.task.task_status]
       /\ stream' = IF r.ret.kind = "task"
                    THEN AfterSnapshot([stream EXCEPT !.polls = @ + 1], r.ret.task.task_status)
                    ELSE [stream EXCEPT !.polls = @ + 1, !.pc = "ended", !.end = "error"]
       /\ UNCHANGED << stream_frame, rq_job, rq_results, single_use_results, removal,
                       issued, deleted, watchdog_published, delete_calls >>

\* The sleep is over.
StreamWake ==
    /\ stream.pc = "sleep"
    /\ stream' = [stream EXCEPT !.pc = "head"]
    /\ last' = NoCall
    /\ UNCHANGED << stream_frame, rq_state >>

\* The client goes away: context.done() becomes true.
ClientDisconnects ==
    /\ stream.pc \in {"head", "poll", "sleep"}
    /\ ~stream.disconnected
    /\ stream' = [stream EXCEPT !.disconnected = TRUE]
    /\ last' = NoCall
    /\ UNCHANGED << stream_frame, rq_state >>

\* What happens to a task around its stream: it is enqueued, the worker runs
\* it, keys expire, another client polls its status, the watchdog and the
\* reaper act.
StreamEnvironment(id) ==
    \/ \E sources \in RequestSources : Enqueue(id, sources)
    \/ WorkerStart(id)
    \/ \E ok \in BOOLEAN : WorkerFinish(id, ok)
    \/ JobExpire(id)
    \/ ProjectionExpire(id)
    \/ PollOk(id)
    \/ WatchdogFailure(id)
    \/ Age(id)
    \/ ReapZombieTasks

\* One server process for the life of the stream.
NextStream ==
    \/ \E id \in TaskIds : StreamEnvironment(id)
    \/ \E id \in TaskIds : StreamOpen(id)
    \/ StreamHead
    \/ \E fail1, fail2, fail3 \in BOOLEAN : StreamPoll(fail1, fail2, fail3)
    \/ StreamWake
    \/ ClientDisconnects

SpecStream == Init /\ [][NextStream]_vars

\* The last snapshot of a list is terminal.
LastIsTerminal(emitted) ==
    Len(emitted) > 0 /\ emitted[Len(emitted)] \in Terminal

\* No snapshot of a list but the last is terminal.
TerminalOnlyLast(emitted) ==
    \A i \in 1..Len(emitted) : emitted[i] \in Terminal => i = Len(emitted)

Backwards(prev, cur) ==
    \/ prev \in Terminal /\ cur # prev
    \/ prev = STARTED /\ cur = PENDING

\* C23: for one task, the statuses returned by successive TaskStatus calls or
\* delivered on a status stream never move backwards: pending is not observed
\* after started, and no different status is observed after a terminal one.
C23_StatusesNeverMoveBackwards ==
    \A id \in TaskIds : ~Backwards(observed[id].prev, observed[id].cur)

(***************************************************************************)
(* TaskStatus with a wait time (PollTaskStatus passes wait_time through).  *)
(* RedisTaskStatusMixin.task_status hands `wait` to the base class only on *)
(* its last path, when RQ gave no answer and the projection has no entry;  *)
(* every other path returns what it read at once.                          *)
(***************************************************************************)

\* The largest wait time a caller passes, in ticks.
MaxWaitTime == 2

\* The base class's task_status(task_id, wait): with wait > 0 on a task that is
\* not completed, the caller is held for `wait` when no status change arrives.
ParentWaited(task, wait_time) ==
    IF task # NoTask /\ ~is_completed(task) THEN wait_time ELSE 0

\* How long task_status(task_id, wait) holds its caller: only the call that
\* reaches super().task_status(task_id, wait) waits at all.
Waited(S, r, id, wait_time) ==
    IF r.rq = "none" /\ GetTaskFromRedis(S.meta, id) = NoTask
    THEN ParentWaited(r.ret.task, wait_time)
    ELSE 0

\* PollTaskStatus: task_status(task_id, wait=wait_time).
LongPollStatus(id, wait_time, fail1, fail2, fail3) ==
    \E r \in {TaskStatusResult(Stores, id, fail1, fail2, fail3)} :
    /\ tasks' = r.S.tasks
    /\ task_result_keys' = r.S.keys
    /\ redis_metadata' = r.S.meta
    /\ redis_result_key' = r.S.rkey
    /\ reported_terminal' = IF r.reported THEN reported_terminal \cup {id}
                            ELSE reported_terminal
    /\ orphan_msg' = IF r.orphaned
                     THEN [orphan_msg EXCEPT ![id] = r.ret.task.error_message]
                     ELSE orphan_msg
    /\ observed' = Observe(observed, id, r.ret)
    /\ last' = [NoCall EXCEPT !.op = "long_poll", !.id = id, !.kind = r.ret.kind,
                              !.task_status = r.ret.task.task_status,
                              !.rq = rq_job[id],
                              !.proj_before = redis_metadata[id],
                              !.mem_before = tasks[id].task_status,
                              !.wait = wait_time,
                              !.waited = Waited(Stores, r, id, wait_time)]
    /\ UNCHANGED << service_vars, delete_calls, rq_job, rq_results, single_use_results,
                    removal, issued, deleted, watchdog_published >>

NextLongPoll ==
    \/ \E id \in TaskIds : StreamEnvironment(id)
    \/ \E id \in TaskIds, wait_time \in 0..MaxWaitTime, fail1, fail2, fail3 \in BOOLEAN :
          LongPollStatus(id, wait_time, fail1, fail2, fail3)

SpecLongPoll == Init /\ [][NextLongPoll]_vars

\* A TaskStatus call with wait > 0 found the task with one and the same
\* non-terminal status in the in-memory map, the projection and the queue, and
\* returned it.
LongPollUnchanged ==
    /\ last.op = "long_poll"
    /\ last.wait > 0
    /\ last.kind = "task"
    /\ last.task_status \in NonTerminal
    /\ last.mem_before = last.task_status
    /\ last.proj_before.task_status = last.task_status
    /\ last.rq # "none"
    /\ JobToStatus(last.rq) = last.task_status

\* C24: TaskStatus(task_id, wait=T) with T > 0 on a non-terminal task whose
\* status does not change returns only when T has elapsed.
C24_LongPollWaits ==
    LongPollUnchanged => last.waited >= last.wait

(***************************************************************************)
(* The reaper among several tasks: _reap_zombie_tasks sweeps an in-memory  *)
(* map that holds tasks of every status and age, each with or without a    *)
(* recorded result key and a projection entry.                             *)
(***************************************************************************)

ReaperIds == {"r1", "r2"}

\* The tasks self.tasks may hold: not completed and without finished_at, or
\* completed with the finished_at that set_status stamped, recent or old.
TrackedTasks ==
    {[task_status |-> st, error_message |-> "none", finished_at |-> "none"] :
        st \in NonTerminal}
    \cup {[task_status |-> st, error_message |-> "none", finished_at |-> fin] :
        st \in Terminal, fin \in {"recent", "old"}}

\* The orchestrator with tasks in every stage when a sweep comes due.
InitReaper ==
    /\ tasks \in [ReaperIds -> {NoTask} \cup TrackedTasks]
    /\ task_result_keys \in SUBSET {id \in ReaperIds : tasks[id].task_status = SUCCESS}
    /\ redis_metadata \in [ReaperIds -> {NoMeta,
                                         [task_status |-> SUCCESS, error_message |-> "none"]}]
    /\ redis_result_key = task_result_keys
    /\ rq_job = [id \in ReaperIds |-> "none"]
    /\ rq_results = task_result_keys
    /\ single_use_results = FALSE
    /\ removal = [id \in ReaperIds |-> 0]
    /\ issued = {id \in ReaperIds : tasks[id] # NoTask}
    /\ deleted = {}
    /\ delete_calls = [id \in ReaperIds |-> 0]
    /\ reported_terminal = {}
    /\ orphan_msg = [id \in ReaperIds |-> "none"]
    /\ watchdog_published = {}
    /\ last = NoCall
    /\ observed = [id \in ReaperIds |-> NoObservation]
    /\ GrpcIdle
    /\ StreamIdle
    /\ DataIdle
    /\ WaitIdle
    /\ EngineIdle

NextReaper ==
    \/ ReapZombieTasks
    \/ \E id \in ReaperIds : Age(id)

SpecReaper == InitReaper /\ [][NextReaper]_vars

\* A task the sweep is to remove: terminal with finished_at older than max_age.
Reapable(task) == task.task_status \in Terminal /\ task.finished_at = "old"

\* C25: a reaper sweep removes from the in-memory map and the result-key map
\* exactly the tasks that are terminal with finished_at older than max_age,
\* leaves every other task as it was, status included, and leaves the
\* projection and the result-key pointers in Redis as they were.
C25_ReaperRemovesExactlyOldTerminal ==
    [][ReapZombieTasks =>
          /\ \A id \in ReaperIds :
                tasks'[id] = IF Reapable(tasks[id]) THEN NoTask ELSE tasks[id]
          /\ task_result_keys' = {id \in task_result_keys : ~Reapable(tasks[id])}
          /\ redis_metadata' = redis_metadata
          /\ redis_result_key' = redis_result_key
          /\ rq_job' = rq_job
          /\ rq_results' = rq_results]_vars

\* A sweep has removed an old successful task with its result key, whose
\* projection entry is still there, and has kept a recently finished one with
\* its result key.
C25_Witness ==
    /\ last.op = "reap"
    /\ tasks["r1"] = NoTask
    /\ "r1" \notin task_result_keys
    /\ "r1" \in redis_result_key
    /\ redis_metadata["r1"].task_status = SUCCESS
    /\ tasks["r2"].task_status = SUCCESS
    /\ tasks["r2"].finished_at = "recent"
    /\ "r2" \in task_result_keys

(***************************************************************************)
(* Bulk cleanup: the ClearResults RPC calls clear_results(older_than) of   *)
(* the orchestrator, which RedisAwareRQOrchestrator inherits: every known  *)
(* terminal task whose finished_at is older than the threshold is evicted  *)
(* with delete_task.                                                       *)
(***************************************************************************)

\* The older_than of a ClearResults request without the field.
DefaultOlderThan == 3600

\* finished_at is older than older_than seconds: any stamp for 0, a stamp
\* older than max_age for the default.
OlderThan(finished_at, older_than) ==
    IF older_than = 0 THEN finished_at \in {"recent", "old"} ELSE finished_at = "old"

\* The tasks clear_results(older_than) evicts.
ToClear(ts, older_than) ==
    {id \in DOMAIN ts : ts[id] # NoTask /\ is_completed(ts[id])
                        /\ OlderThan(ts[id].finished_at, older_than)}

\* ClearResults: clear_results(older_than), delete_task for every task found.
ClearResults(older_than) ==
    LET to_clear == ToClear(tasks, older_than) IN
    /\ tasks' = [id \in TaskIds |-> IF id \in to_clear
                                   THEN DeleteTask(Stores, id).S.tasks[id] ELSE tasks[id]]
    /\ task_result_keys' = task_result_keys \ to_clear
    /\ rq_job' = [id \in TaskIds |-> IF id \in to_clear
                                    THEN DeleteTask(Stores, id).job[id] ELSE rq_job[id]]
    /\ rq_results' = rq_results \ to_clear
    /\ deleted' = deleted \cup to_clear
    /\ delete_calls' = [id \in TaskIds |-> IF id \in to_clear THEN delete_calls[id] + 1
                                          ELSE delete_calls[id]]
    /\ last' = [NoCall EXCEPT !.op = "clear", !.wait = older_than,
                              !.terminal_before =
                                  {id \in TaskIds : tasks[id] # NoTask /\ is_completed(tasks[id])}]
    /\ UNCHANGED << service_vars, observed, redis_metadata, redis_result_key,
                    single_use_results, removal, issued, reported_terminal, orphan_msg,
                    watchdog_published >>

NextClear ==
    \/ \E id \in TaskIds : StreamEnvironment(id)
    \/ \E id \in TaskIds : FetchResult(id)
    \/ \E older_than \in {0, DefaultOlderThan} : ClearResults(older_than)

SpecClear == Init /\ [][NextClear]_vars

\* ClearResults(0) has just completed.
ClearedAll == last.op = "clear" /\ last.wait = 0

\* C26: after ClearResults(0), a task that was terminal at the time of the call
\* has no fetchable result and no status record (TaskStatus raises
\* TaskNotFound), and a task that was pending or started is left as it was.
C26_ClearedTasksAreGone ==
    ClearedAll =>
        \A id \in TaskIds :
            IF id \in last.terminal_before
            THEN /\ ~TaskResult(Stores, id).found
                 /\ TaskStatusResult(Stores, id, FALSE, FALSE, FALSE).ret.kind = "notfound"
            ELSE tasks[id].task_status \in NonTerminal => id \notin deleted

(***************************************************************************)
(* The projection round trip: _store_task_in_redis writes a Task as JSON   *)
(* under <prefix><task_id>:metadata and _get_task_from_redis rebuilds a    *)
(* Task from it.  A Task is taken with every field the JSON carries:       *)
(* processing_meta may be None, error_message may be None, empty or a      *)
(* text.  The write and the read succeed.                                  *)
(***************************************************************************)

\* The largest value of a processing_meta counter.
MaxCount == 1

\* Python None and JSON null.
None == "None"

\* A member of a str-valued enum (TaskStatus, TaskType).
Member(enum, value) == [enum |-> enum, value |-> value]

Counters == {"num_docs", "num_processed", "num_succeeded", "num_failed"}

\* Task.processing_meta when it is None.
NoneMeta == [none |-> TRUE]

\* The values of Task.processing_meta: None or a TaskProcessingMeta.
ProcessingMetas == {NoneMeta} \cup [Counters -> 0..MaxCount]

\* The values of Task.error_message: None, the empty string, a text.
ErrorMessages == {None, "", "corrupt PDF"}

\* The Tasks handed to _store_task_in_redis.
RoundTripTasks ==
    [task_id : TaskIds,
     task_type : {Member("TaskType", v) : v \in {"convert", "chunk"}},
     task_status : {Member("TaskStatus", v) : v \in Terminal \cup NonTerminal},
     processing_meta : ProcessingMetas,
     error_message : ErrorMessages]

\* Python truthiness of a string or null read from the JSON.
Truthy(v) == v # None /\ v # ""

\* meta = data.get("processing_meta") or {} followed by the four
\* meta.setdefault(counter, 0).
WithDefaults(meta) == [c \in Counters |-> IF c \in DOMAIN meta THEN meta[c] ELSE 0]

\* Mutant: the JSON is written with the counters zeroed.
ProjectionJson_ZeroCounters(task) ==
    [task_id |-> task.task_id,
     task_type |-> task.task_type.value,
     task_status |-> task.task_status.value,
     processing_meta |-> [c \in Counters |-> 0],
     error_message |-> task.error_message]

\* _store_task_in_redis: the dict dumped under the key.  processing_meta is
\* model_dump()ed, or replaced by four zero counters when it is None.
ProjectionJson(task) ==
    [task_id |-> task.task_id,
     task_type |-> task.task_type.value,
     task_status |-> task.task_status.value,
     processing_meta |-> IF task.processing_meta = NoneMeta
                         THEN [c \in Counters |-> 0]
                         ELSE task.processing_meta,
     error_message |-> task.error_message]

\* _get_task_from_redis: the Task built from the dict.  The counters default
\* to 0; error_message is passed on only when it is truthy, else the field
\* keeps its default None.
TaskFromJson(data) ==
    [task_id |-> data.task_id,
     task_type |-> Member("TaskType", data.task_type),
     task_status |-> Member("TaskStatus", data.task_status),
     processing_meta |-> WithDefaults(data.processing_meta),
     error_message |-> IF Truthy(data.error_message) THEN data.error_message ELSE None]

\* await self._store_task_in_redis(task)
StoreProjection ==
    /\ roundtrip.pc = "task"
    /\ roundtrip' = [pc |-> "stored", task |-> roundtrip.task,
                     data |-> ProjectionJson(roundtrip.task)]
    /\ UNCHANGED << rq_vars, queue_vars, rpc_vars, wait_vars, engine_vars, stream_vars,
                    progress, convert_rpc, status_calls >>

\* task = await self._get_task_from_redis(task_id)
LoadProjection ==
    /\ roundtrip.pc = "stored"
    /\ roundtrip' = [pc |-> "loaded", task |-> roundtrip.task, data |-> roundtrip.data,
                     loaded |-> TaskFromJson(roundtrip.data)]
    /\ UNCHANGED << rq_vars, queue_vars, rpc_vars, wait_vars, engine_vars, stream_vars,
                    progress, convert_rpc, status_calls >>

\* Any Task is about to be stored.
InitRoundTrip ==
    /\ tasks = [id \in TaskIds |-> NoTask]
    /\ task_result_keys = {}
    /\ redis_metadata = [id \in TaskIds |-> NoMeta]
    /\ redis_result_key = {}
    /\ rq_job = [id \in TaskIds |-> "none"]
    /\ rq_results = {}
    /\ single_use_results = FALSE
    /\ removal = [id \in TaskIds |-> 0]
    /\ issued = {}
    /\ deleted = {}
    /\ delete_calls = [id \in TaskIds |-> 0]
    /\ reported_terminal = {}
    /\ orphan_msg = [id \in TaskIds |-> "none"]
    /\ watchdog_published = {}
    /\ last = NoCall
    /\ observed = [id \in TaskIds |-> NoObservation]
    /\ GrpcIdle
    /\ StreamIdle
    /\ WaitIdle
    /\ EngineIdle
    /\ progress = NoProgress
    /\ convert_rpc = NoConvertRpc
    /\ status_calls = NoStatusCalls
    /\ roundtrip \in {[pc |-> "task", task |-> t] : t \in RoundTripTasks}

NextRoundTrip == StoreProjection \/ LoadProjection

SpecRoundTrip == InitRoundTrip /\ [][NextRoundTrip]_vars

FinishedAtMatches(task) == (task.finished_at # "none") <=> (task.task_status \in Terminal)

\* Every Task of the in-memory map has finished_at set iff it is terminal.
MapFinishedAtMatches ==
    \A id \in TaskIds : tasks[id] # NoTask => FinishedAtMatches(tasks[id])

\* Every Task a TaskStatus call made now returns, whatever RQ query of it
\* fails, has finished_at set iff it is terminal.
ReturnedFinishedAtMatches ==
    \A id \in TaskIds, fail1, fail2, fail3 \in BOOLEAN :
        LET r == TaskStatusResult(Stores, id, fail1, fail2, fail3)
        IN  r.ret.kind = "task" => FinishedAtMatches(r.ret.task)

\* C28: every Task held in the in-memory map or returned by TaskStatus has
\* finished_at set if and only if its status is success or failure.
C28_FinishedAtIffTerminal == MapFinishedAtMatches /\ ReturnedFinishedAtMatches

(***************************************************************************)
(* Progress callbacks of the KFP engine.  The pipeline's components post   *)
(* ProgressSetNumDocs and ProgressUpdateProcessed to the server, which     *)
(* hands them to AsyncKfpOrchestrator.receive_task_progress.  One task is  *)
(* followed; `progress` holds its processing_meta, the processing_meta     *)
(* before the last callback, and what the last callback was.               *)
(***************************************************************************)

\* The callbacks received for the task.
MaxCallbacks == 3

\* The largest num_docs of a ProgressSetNumDocs.
MaxDocs == 2

\* The largest count in a ProgressUpdateProcessed.
MaxDelta == 1

\* TaskProcessingMeta(num_docs=n): the other counters take their default 0.
TaskProcessingMeta(n) == [ZeroMeta EXCEPT !.num_docs = n]

\* receive_task_progress, ProgressSetNumDocs branch: processing_meta is
\* replaced by a new TaskProcessingMeta.
ReceiveSetNumDocs(num_docs) ==
    /\ progress.received < MaxCallbacks
    /\ progress' = [has_meta |-> TRUE, meta |-> TaskProcessingMeta(num_docs),
                    had_meta |-> progress.has_meta, before |-> progress.meta,
                    received |-> progress.received + 1,
                    callback |-> "set_num_docs", outcome |-> "ack",
                    as_sent |-> progress.as_sent /\ progress.received = 0]
    /\ UNCHANGED << rq_vars, queue_vars, rpc_vars, wait_vars, engine_vars, stream_vars,
                    roundtrip, convert_rpc, status_calls >>

\* receive_task_progress, ProgressUpdateProcessed branch: ProgressInvalid
\* when processing_meta is None, else the three counts are added.
ReceiveUpdateProcessed(num_processed, num_success, num_failed) ==
    /\ progress.received < MaxCallbacks
    /\ progress' =
         IF ~progress.has_meta
         THEN [progress EXCEPT !.had_meta = progress.has_meta,
                               !.before = progress.meta,
                               !.received = @ + 1,
                               !.callback = "update_processed",
                               !.outcome = "invalid",
                               !.as_sent = FALSE]
         ELSE [has_meta |-> TRUE,
               meta |-> [progress.meta EXCEPT !.num_processed = @ + num_processed,
                                              !.num_success = @ + num_success,
                                              !.num_failed = @ + num_failed],
               had_meta |-> TRUE, before |-> progress.meta,
               received |-> progress.received + 1,
               callback |-> "update_processed", outcome |-> "ack",
               as_sent |-> progress.as_sent /\ num_processed = num_success + num_failed]
    /\ UNCHANGED << rq_vars, queue_vars, rpc_vars, wait_vars, engine_vars, stream_vars,
                    roundtrip, convert_rpc, status_calls >>

\* The task is tracked, no callback received.
InitProgress ==
    /\ tasks = [id \in TaskIds |-> NoTask]
    /\ task_result_keys = {}
    /\ redis_metadata = [id \in TaskIds |-> NoMeta]
    /\ redis_result_key = {}
    /\ rq_job = [id \in TaskIds |-> "none"]
    /\ rq_results = {}
    /\ single_use_results = FALSE
    /\ removal = [id \in TaskIds |-> 0]
    /\ issued = {}
    /\ deleted = {}
    /\ delete_calls = [id \in TaskIds |-> 0]
    /\ reported_terminal = {}
    /\ orphan_msg = [id \in TaskIds |-> "none"]
    /\ watchdog_published = {}
    /\ last = NoCall
    /\ observed = [id \in TaskIds |-> NoObservation]
    /\ GrpcIdle
    /\ StreamIdle
    /\ WaitIdle
    /\ EngineIdle
    /\ DataIdle

NextProgress ==
    \/ \E num_docs \in 0..MaxDocs : ReceiveSetNumDocs(num_docs)
    \/ \E num_processed, num_success, num_failed \in 0..MaxDelta :
          ReceiveUpdateProcessed(num_processed, num_success, num_failed)

SpecProgress == InitProgress /\ [][NextProgress]_vars

\* C29: after any sequence of progress callbacks the counters satisfy
\* num_processed = num_success + num_failed.
C29_ProcessedIsSucceededPlusFailed ==
    progress.has_meta =>
        progress.meta.num_processed = progress.meta.num_success + progress.meta.num_failed

\* The same for the sequences the pipeline's components send: one
\* ProgressSetNumDocs first, then ProgressUpdateProcessed whose num_processed
\* is num_success + num_failed.
ProcessedIsSumWhenAsSent ==
    (progress.has_meta /\ progress.as_sent) =>
        progress.meta.num_processed = progress.meta.num_success + progress.meta.num_failed

\* No counter is lower after the last callback than before it.
NoCounterDecreased ==
    progress.had_meta => \A c \in DOMAIN ZeroMeta : progress.meta[c] >= progress.before[c]

\* C30: across any sequence of progress callbacks no processing_meta counter
\* (num_docs, num_processed, num_success, num_failed) ever decreases.
C30_CountersNeverDecrease == progress.received > 0 => NoCounterDecreased

\* The same for the sequences the pipeline's components send.
NoDecreaseWhenAsSent == progress.as_sent => NoCounterDecreased

(***************************************************************************)
(* Infrastructure failures.  The projection store is unreachable for the   *)
(* whole of a call (every Redis command of the mixin raises), or the queue *)
(* service is (every RQ query of the call raises something other than      *)
(* NoSuchJobError).  _get_task_from_redis, _store_task_in_redis and the    *)
(* result-key reads and writes catch the exception and log it.             *)
(***************************************************************************)

\* The operations recorded for a call made while a store was failing.
FaultOps == {"status_projection_down", "status_queue_down",
             "result_projection_down", "enqueue_projection_down"}

\* The stores as task_status sees them when _get_task_from_redis returns None
\* because the read raised.
ProjectionUnreadable(S, id) == [S EXCEPT !.meta[id] = NoMeta]

\* TaskStatus(id) with the projection store failing: the read gives None,
\* the writes of the projection and of the result-key pointer are lost.
TaskStatusProjectionDown(id, fail1, fail2, fail3) ==
    \E r \in {TaskStatusResult(ProjectionUnreadable(Stores, id), id, fail1, fail2, fail3)} :
    /\ tasks' = r.S.tasks
    /\ task_result_keys' = r.S.keys
    /\ reported_terminal' = IF r.reported THEN reported_terminal \cup {id}
                            ELSE reported_terminal
    /\ observed' = Observe(observed, id, r.ret)
    /\ last' = [NoCall EXCEPT !.op = "status_projection_down", !.id = id,
                              !.kind = r.ret.kind,
                              !.task_status = r.ret.task.task_status,
                              !.error_message = r.ret.task.error_message,
                              !.q1 = r.seen, !.q2 = r.seen2, !.rq = r.rq,
                              !.proj_before = redis_metadata[id],
                              !.mem_before = tasks[id].task_status,
                              !.key_before = (id \in task_result_keys)]
    /\ UNCHANGED << service_vars, delete_calls, redis_metadata, redis_result_key, rq_job,
                    rq_results, single_use_results, removal, issued, deleted,
                    orphan_msg, watchdog_published >>

\* TaskStatus(id) with the queue service failing: every RQ query of the call
\* raises.
TaskStatusQueueDown(id) ==
    \E r \in {TaskStatusResult(Stores, id, TRUE, TRUE, TRUE)} :
    /\ tasks' = r.S.tasks
    /\ task_result_keys' = r.S.keys
    /\ redis_metadata' = r.S.meta
    /\ redis_result_key' = r.S.rkey
    /\ observed' = Observe(observed, id, r.ret)
    /\ last' = [NoCall EXCEPT !.op = "status_queue_down", !.id = id,
                              !.kind = r.ret.kind,
                              !.task_status = r.ret.task.task_status,
                              !.error_message = r.ret.task.error_message,
                              !.q1 = r.seen, !.q2 = r.seen2, !.rq = r.rq,
                              !.proj_before = redis_metadata[id],
                              !.mem_before = tasks[id].task_status,
                              !.key_before = (id \in task_result_keys)]
    /\ UNCHANGED << service_vars, delete_calls, rq_job, rq_results, single_use_results,
                    removal, issued, deleted, reported_terminal, orphan_msg,
                    watchdog_published >>

\* task_result with the projection store failing: the base class's answer,
\* else None, the read of the result-key pointer having raised.
FetchResultProjectionDown(id) ==
    \E found \in {ParentTaskResult(task_result_keys, id)} :
    /\ removal[id] < MaxScheduledRemovals
    /\ removal' = IF found THEN [removal EXCEPT ![id] = WithSingleUseCleanup(@)]
                  ELSE removal
    /\ last' = [NoCall EXCEPT !.op = "result_projection_down", !.id = id,
                              !.kind = IF found THEN "result" ELSE "notfound",
                              !.key_before = (id \in redis_result_key)]
    /\ UNCHANGED << service_vars, observed, delete_calls, tasks, task_result_keys,
                    redis_metadata, redis_result_key, rq_job, rq_results,
                    single_use_results, issued, deleted, reported_terminal, orphan_msg,
                    watchdog_published >>

\* enqueue with the projection store failing: the task is tracked and the job
\* pushed, the projection write is lost, the Task is returned.
EnqueueProjectionDown(id, sources) ==
    /\ id \notin issued
    /\ tasks' = [tasks EXCEPT ![id] = temp_task]
    /\ rq_job' = [rq_job EXCEPT ![id] = "queued"]
    /\ last' = [NoCall EXCEPT !.op = "enqueue_projection_down", !.id = id,
                              !.kind = "task", !.task_status = PENDING,
                              !.mem_before = tasks[id].task_status,
                              !.proj_before = redis_metadata[id],
                              !.rq = rq_job[id],
                              !.sources = sources,
                              !.payload = RqSources(sources)]
    /\ issued' = issued \cup {id}
    /\ UNCHANGED << service_vars, observed, delete_calls, task_result_keys, redis_metadata,
                    redis_result_key, rq_results, single_use_results,
                    removal, deleted, reported_terminal, orphan_msg, watchdog_published >>

NextFaults ==
    \/ \E id \in TaskIds : StreamEnvironment(id)
    \/ \E id \in TaskIds : FetchResult(id)
    \/ \E id \in TaskIds, fail1, fail2, fail3 \in BOOLEAN :
          TaskStatusProjectionDown(id, fail1, fail2, fail3)
    \/ \E id \in TaskIds : TaskStatusQueueDown(id)
    \/ \E id \in TaskIds : FetchResultProjectionDown(id)
    \/ \E id \in TaskIds, sources \in RequestSources : EnqueueProjectionDown(id, sources)

SpecFaults == Init /\ [][NextFaults]_vars

\* C31: a call during which the queue service or the projection store keeps
\* failing surfaces as UpstreamUnavailable: it is not answered with
\* TaskNotFound, with a missing result, or with a Task or a result.
C31_PersistentFailureIsUnavailable ==
    last.op \in FaultOps => last.kind = "unavailable"

\* The part of C31 about TaskNotFound alone, for a task the projection holds.
FailureNeverNotFound ==
    (last.op \in {"status_projection_down", "status_queue_down"}
        /\ last.proj_before # NoMeta)
    => last.kind # "notfound"

(***************************************************************************)
(* The sources of the job payload.  Enqueue records in `last` the sources  *)
(* it was called with and the sources of the Task it dumped into the RQ    *)
(* job's task_data.                                                        *)
(***************************************************************************)

\* The payload carries the sources one for one, in order.
PayloadCarries(sources, payload) ==
    /\ Len(payload) = Len(sources)
    /\ \A i \in 1..Len(sources) : payload[i] = AsJobSource(sources[i])

\* C32: the job payload built by Enqueue contains every submitted source, in
\* submission order, for every source kind; none is dropped or reordered.
C32_PayloadHasEverySource ==
    last.op = "enqueue" => PayloadCarries(last.sources, last.payload)

\* The same for the sources that are DocumentStreams, HttpSources or FileSources.
PayloadHasEveryFileOrHttpSource ==
    (last.op = "enqueue"
        /\ \A i \in 1..Len(last.sources) : last.sources[i] \in {"stream", "http", "file"})
    => PayloadCarries(last.sources, last.payload)

(***************************************************************************)
(* Revalidation of a stale projection.  In `last`, q1 is what RQ answered  *)
(* to the first query of a TaskStatus call and q2 what it answered to the  *)
(* second, "none" when the call made no second query.                      *)
(***************************************************************************)

\* The TaskStatus call just made met a queue exception on its first query
\* and found a pending or started projection.
TransientWithStaleProjection ==
    /\ last.op \in {"status", "peer_status"}
    /\ last.q1 = "error"
    /\ last.proj_before.task_status \in NonTerminal

\* The second query gave a Task (not None, not the job-gone sentinel) whose
\* status is not the projection's.
FreshDiffers ==
    /\ last.q2 \in {STARTED, SUCCESS, FAILURE}
    /\ last.q2 # last.proj_before.task_status

Reclassified ==
    /\ last.op \in {"status", "peer_status"}
    /\ last.rq = "gone"
    /\ last.proj_before.task_status \in NonTerminal

\* C34: the error_message synthesized at orphan reclassification names the
\* status the task had before reclassification (pending or started), not
\* the new status failure.
C34_OrphanMessageNamesOldStatus ==
    Reclassified => last.error_message = OrphanMessage(last.proj_before.task_status)

\* The TaskStatus call just made turned a pending or started projection into
\* an orphan failure.
OrphanWritten ==
    /\ last.op \in {"status", "peer_status"}
    /\ last.proj_before.task_status \in NonTerminal
    /\ redis_metadata[last.id].task_status = FAILURE
    /\ IsOrphanMessage(redis_metadata[last.id].error_message)

\* The first RQ query of the TaskStatus call just made raised something other
\* than NoSuchJobError.
QueueRaised == last.op \in {"status", "peer_status"} /\ last.q1 = "error"

ReportedOrphaned ==
    /\ last.op \in {"status", "peer_status"}
    /\ last.kind = "task"
    /\ last.task_status = FAILURE
    /\ IsOrphanMessage(last.error_message)

\* C36: a task whose job finished with success in the queue service (its
\* result payload is stored) is not reported by TaskStatus as failure
\* (orphaned), even if no status query saw the success before the job
\* record expired.
C36_FinishedJobNeverOrphaned ==
    ReportedOrphaned => last.id \notin rq_results

(***************************************************************************)
(* Engines that refresh a task from an external job state.  The KFP engine *)
(* copies the run state on every TaskStatus; the RQ engine copies the job  *)
(* status on every get_queue_position.  The external service moves the run *)
(* or the job on its own: a run is paused and resumed, cancelled, or       *)
(* retried after a failure; a failed job is requeued.  eng_tasks holds the *)
(* task statuses and job_status the run state or job status of each id.    *)
(***************************************************************************)

\* V2beta1RuntimeState, the states _update_task_from_run lists.
RunStates == {"RUNTIME_STATE_UNSPECIFIED", "PENDING", "RUNNING", "SUCCEEDED", "SKIPPED",
              "FAILED", "CANCELING", "CANCELED", "PAUSED"}

\* _update_task_from_run: run state -> task status.
RunToStatus(state) ==
    CASE state = "SUCCEEDED" -> SUCCESS
      [] state = "PENDING"   -> PENDING
      [] state = "RUNNING"   -> STARTED
      [] OTHER               -> FAILURE

\* The moves of a run in the pipeline service: scheduled, run to an end,
\* paused and resumed, cancelled, retried after a failure.
RunMoves ==
    {<< "PENDING", "RUNNING" >>, << "RUNNING", "SUCCEEDED" >>, << "RUNNING", "FAILED" >>,
     << "RUNNING", "PAUSED" >>, << "PAUSED", "RUNNING" >>,
     << "RUNNING", "CANCELING" >>, << "CANCELING", "CANCELED" >>,
     << "FAILED", "RUNNING" >>}

\* AsyncKfpOrchestrator.enqueue: the run is created, the Task tracked under
\* the run id with the default status pending.
KfpEnqueue(id) ==
    /\ engine = "kfp"
    /\ eng_tasks[id] = "absent"
    /\ eng_tasks' = [eng_tasks EXCEPT ![id] = PENDING]
    /\ job_status' = [job_status EXCEPT ![id] = "PENDING"]
    /\ eng_last' = [NoEngineCall EXCEPT !.op = "enqueue", !.id = id, !.outcome = PENDING]
    /\ UNCHANGED << engine_frame, queue_list, task_queue >>

\* The pipeline service moves the run.
RunMove(id, state) ==
    /\ engine = "kfp"
    /\ << job_status[id], state >> \in RunMoves
    /\ job_status' = [job_status EXCEPT ![id] = state]
    /\ eng_last' = NoEngineCall
    /\ UNCHANGED << engine_frame, eng_tasks, queue_list, task_queue >>

\* AsyncKfpOrchestrator.task_status: _update_task_from_run assigns the status
\* the run state maps to, then the Task is returned.
KfpTaskStatus(id) ==
    /\ engine = "kfp"
    /\ eng_tasks[id] # "absent"
    /\ eng_tasks' = [eng_tasks EXCEPT ![id] = RunToStatus(job_status[id])]
    /\ eng_last' = [NoEngineCall EXCEPT !.op = "status", !.id = id,
                                        !.outcome = RunToStatus(job_status[id]),
                                        !.status_before = eng_tasks[id],
                                        !.status_after = RunToStatus(job_status[id])]
    /\ UNCHANGED << engine_frame, job_status, queue_list, task_queue >>

\* A failed RQ job is put back on its queue (rq requeue, a retry).
JobRequeued(id) ==
    /\ engine = "rq"
    /\ job_status[id] = "failed"
    /\ job_status' = [job_status EXCEPT ![id] = "queued"]
    /\ task_queue' = Append(task_queue, id)
    /\ eng_last' = NoEngineCall
    /\ UNCHANGED << engine_frame, eng_tasks, queue_list >>

\* The process runs the KFP or the RQ engine.
InitRefresh ==
    /\ tasks = [id \in TaskIds |-> NoTask]
    /\ task_result_keys = {}
    /\ redis_metadata = [id \in TaskIds |-> NoMeta]
    /\ redis_result_key = {}
    /\ rq_job = [id \in TaskIds |-> "none"]
    /\ rq_results = {}
    /\ single_use_results = FALSE
    /\ removal = [id \in TaskIds |-> 0]
    /\ issued = {}
    /\ deleted = {}
    /\ delete_calls = [id \in TaskIds |-> 0]
    /\ reported_terminal = {}
    /\ orphan_msg = [id \in TaskIds |-> "none"]
    /\ watchdog_published = {}
    /\ last = NoCall
    /\ observed = [id \in TaskIds |-> NoObservation]
    /\ GrpcIdle
    /\ StreamIdle
    /\ DataIdle
    /\ WaitIdle
    /\ engine \in {"kfp", "rq"}
    /\ queue_max_size = 0
    /\ EngineConstructed

NextRefresh ==
    \/ \E id \in EngineIds : KfpEnqueue(id)
    \/ \E id \in EngineIds, state \in RunStates : RunMove(id, state)
    \/ \E id \in EngineIds : KfpTaskStatus(id)
    \/ \E id \in EngineIds : RqStep(id)
    \/ RqWorkerStart
    \/ \E id \in EngineIds : JobRequeued(id)

SpecRefresh == InitRefresh /\ [][NextRefresh]_vars

\* C37: a refresh from the external job state (TaskStatus of the KFP engine,
\* get_queue_position of the RQ engine) never sets a task that was success or
\* failure back to pending or started.
C37_RefreshKeepsTerminal ==
    (eng_last.op \in {"status", "position"} /\ eng_last.status_before \in Terminal)
    => eng_last.status_after \notin NonTerminal

(***************************************************************************)
(* Fetching a conversion result over gRPC.  ConvertSourceAsync notes the   *)
(* export formats the request asked for in self._requested_formats;        *)
(* GetConvertResult builds the response from the stored result and from    *)
(* that entry.  Single-use results are disabled, so a fetch schedules no   *)
(* removal.  convert_rpc keeps the responses given for each task since it  *)
(* was last cleared or deleted.                                            *)
(***************************************************************************)

\* How many times a result is fetched.
MaxFetches == 3

\* OutputFormat, the members _build_exports knows.
OutputFormats == {"json", "md", "html", "text", "doctags"}

\* requested_output_formats: the to_formats of the request, Markdown when
\* there are none.
RequestedOutputFormats(to_formats) == IF to_formats = {} THEN {"md"} ELSE to_formats

\* The contents the converted document has: the formats of the options
\* (Markdown by default) and, by _ensure_doc_format, JSON.
DocumentContent(to_formats) == RequestedOutputFormats(to_formats) \cup {"json"}

\* _build_exports: the requested formats the document has a content for.
BuildExports(content, requested_formats) == content \cap requested_formats

\* convert_result_to_proto: the document and its exports.
ConvertResultToProto(content, requested_formats) ==
    [doc |-> "json" \in content, exports |-> BuildExports(content, requested_formats)]

\* ConvertSourceAsync: the task is enqueued and its requested formats are
\* noted under its id.
ConvertSourceAsync(id, to_formats) ==
    /\ convert_rpc.content[id] = {}
    /\ convert_rpc' = [convert_rpc EXCEPT
                          !.registered = @ \cup {id},
                          !.requested_formats[id] = RequestedOutputFormats(to_formats),
                          !.content[id] = DocumentContent(to_formats)]
    /\ UNCHANGED << rq_vars, queue_vars, rpc_vars, wait_vars, engine_vars, stream_vars,
                    roundtrip, progress, status_calls >>

\* The worker completes the task: task_result is no longer None.
ConvertCompletes(id) ==
    /\ convert_rpc.content[id] # {}
    /\ id \notin convert_rpc.completed
    /\ id \notin convert_rpc.cleared
    /\ convert_rpc' = [convert_rpc EXCEPT !.completed = @ \cup {id}]
    /\ UNCHANGED << rq_vars, queue_vars, rpc_vars, wait_vars, engine_vars, stream_vars,
                    roundtrip, progress, status_calls >>

\* GetConvertResult on a task that has a result:
\* self._requested_formats.pop(task_id, set()), then the response.
GetConvertResult(id) ==
    /\ id \in convert_rpc.completed
    /\ Len(convert_rpc.responses[id]) < MaxFetches
    /\ LET requested_formats == IF id \in convert_rpc.registered
                                THEN convert_rpc.requested_formats[id] ELSE {}
       IN  convert_rpc' = [convert_rpc EXCEPT
                              !.registered = @ \ {id},
                              !.responses[id] =
                                  Append(@, ConvertResultToProto(convert_rpc.content[id],
                                                                 requested_formats))]
    /\ UNCHANGED << rq_vars, queue_vars, rpc_vars, wait_vars, engine_vars, stream_vars,
                    roundtrip, progress, status_calls >>

\* The task is cleared or deleted: its result is gone.
ConvertCleared(id) ==
    /\ id \in convert_rpc.completed
    /\ convert_rpc' = [convert_rpc EXCEPT !.completed = @ \ {id},
                                          !.cleared = @ \cup {id},
                                          !.responses[id] = << >>]
    /\ UNCHANGED << rq_vars, queue_vars, rpc_vars, wait_vars, engine_vars, stream_vars,
                    roundtrip, progress, status_calls >>

\* The service constructed, single-use results disabled.
InitResults ==
    /\ tasks = [id \in TaskIds |-> NoTask]
    /\ task_result_keys = {}
    /\ redis_metadata = [id \in TaskIds |-> NoMeta]
    /\ redis_result_key = {}
    /\ rq_job = [id \in TaskIds |-> "none"]
    /\ rq_results = {}
    /\ single_use_results = FALSE
    /\ removal = [id \in TaskIds |-> 0]
    /\ issued = {}
    /\ deleted = {}
    /\ delete_calls = [id \in TaskIds |-> 0]
    /\ reported_terminal = {}
    /\ orphan_msg = [id \in TaskIds |-> "none"]
    /\ watchdog_published = {}
    /\ last = NoCall
    /\ observed = [id \in TaskIds |-> NoObservation]
    /\ GrpcIdle
    /\ StreamIdle
    /\ DataIdle
    /\ WaitIdle
    /\ EngineIdle

NextResults ==
    \/ \E id \in TaskIds, to_formats \in SUBSET OutputFormats : ConvertSourceAsync(id, to_formats)
    \/ \E id \in TaskIds : ConvertCompletes(id)
    \/ \E id \in TaskIds : GetConvertResult(id)
    \/ \E id \in TaskIds : ConvertCleared(id)

SpecResults == InitResults /\ [][NextResults]_vars

\* C38: with single-use results disabled, every fetch of a completed task's
\* result returns the same response (same document, same exports) until the
\* task is cleared or deleted.
C38_RepeatedFetchSameResponse ==
    \A id \in TaskIds :
        \A i, j \in 1..Len(convert_rpc.responses[id]) :
            convert_rpc.responses[id][i] = convert_rpc.responses[id][j]

\* The same for the document alone.
RepeatedFetchSameDocument ==
    \A id \in TaskIds :
        \A i, j \in 1..Len(convert_rpc.responses[id]) :
            convert_rpc.responses[id][i].doc = convert_rpc.responses[id][j].doc

\* ---------------------------------------------------------------------------
\* Concurrent task_status calls on one id.  Each call runs on the event loop
\* and gives it up at its awaits; the map self.tasks is touched between them
\* with no lock.  Objects keep their identity: the map and the locals hold
\* references, set_status changes the object.
\* ---------------------------------------------------------------------------

StatusOf(sc, o) == IF o = NoObject THEN "none" ELSE sc.status[o]

\* The synchronous head of _get_task_from_rq_direct: a terminal entry is
\* returned as it is; otherwise the entry is remembered, a pending placeholder
\* takes its place and the call suspends on the base class's queue query.
\* Returns the new record and whether the call returned at once.
QueryBegin(sc, c, n, at) ==
    IF sc.entry # NoObject /\ sc.status[sc.entry] \in Terminal
    THEN [sc |-> sc, returned |-> TRUE, result |-> sc.entry]
    ELSE [sc |-> [sc EXCEPT !.status[TempTask(c, n)] = PENDING,
                            !.entry = TempTask(c, n),
                            !.call[c] = [pc |-> at, original |-> sc.entry,
                                         temp |-> TempTask(c, n), gone |-> FALSE]],
          returned |-> FALSE, result |-> NoObject]

\* The outcome of the awaited base-class update: the query raised, the job is
\* gone, or the status of the job was set on the task the base class holds.
\* in_map: the base class looks the task up in the map after its query (TRUE)
\* or holds the one it found before it (FALSE).
QueryOutcome(sc, c, in_map, fail) ==
    LET target == IF in_map THEN sc.entry ELSE sc.call[c].temp
    IN  IF fail \/ target = NoObject THEN [kind |-> "error", status |-> sc.status]
        ELSE IF sc.job = "none" THEN [kind |-> "gone", status |-> sc.status]
        ELSE IF sc.status[target] \in Terminal THEN [kind |-> "ok", status |-> sc.status]
        ELSE [kind |-> "ok",
              status |-> [sc.status EXCEPT ![target] = JobToStatus(sc.job)]]

\* What the call hands back after the await: the task now in the map when its
\* status is not pending, the gone marker, or nothing.
QueryResult(sc, out) ==
    IF out.kind = "ok" /\ sc.entry # NoObject /\ out.status[sc.entry] # PENDING
    THEN sc.entry ELSE NoObject

\* The finally block: the remembered entry is put back, or the call's own
\* placeholder is deleted.
AfterFinally(sc, c) ==
    IF sc.call[c].original # NoObject THEN sc.call[c].original
    ELSE IF sc.entry = sc.call[c].temp THEN NoObject
    ELSE sc.entry

Returned(sc, c) == [sc EXCEPT !.call[c].pc = "returned"]

\* task_status starts: the first queue query.
StatusCallBegins(c) ==
    /\ status_calls.call[c].pc = "idle"
    /\ \E b \in {QueryBegin(status_calls, c, 1, "query")} :
          status_calls' =
              IF b.returned
              THEN Returned([b.sc EXCEPT !.entry = b.result,
                                         !.proj = b.sc.status[b.result]], c)
              ELSE b.sc
    /\ UNCHANGED << rq_vars, queue_vars, rpc_vars, wait_vars, engine_vars, stream_vars,
                    roundtrip, progress, convert_rpc >>

\* The first query comes back: a Task is stored in the map and in the
\* projection and returned; otherwise the call goes on to read the projection.
StatusQueryReturns(c, in_map, fail) ==
    /\ status_calls.call[c].pc = "query"
    /\ \E out \in {QueryOutcome(status_calls, c, in_map, fail)} :
       \E result \in {QueryResult(status_calls, out)} :
          status_calls' =
              IF result # NoObject
              THEN Returned([status_calls EXCEPT !.status = out.status,
                                                 !.entry = result,
                                                 !.proj = out.status[result]], c)
              ELSE [status_calls EXCEPT !.status = out.status,
                                        !.entry = AfterFinally(status_calls, c),
                                        !.call[c].pc = "projection",
                                        !.call[c].gone = (out.kind = "gone")]
    /\ UNCHANGED << rq_vars, queue_vars, rpc_vars, wait_vars, engine_vars, stream_vars,
                    roundtrip, progress, convert_rpc >>

\* The projection has been read.  Job gone: the entry is popped and a
\* non-terminal projection becomes a failure.  Non-terminal projection: the
\* second query starts.  Terminal projection: returned as read.
StatusProjectionRead(c) ==
    /\ status_calls.call[c].pc = "projection"
    /\ IF status_calls.call[c].gone
       THEN status_calls' =
                Returned([status_calls EXCEPT
                              !.entry = NoObject,
                              !.proj = IF @ \in Terminal THEN @ ELSE FAILURE], c)
       ELSE IF status_calls.proj \in NonTerminal
       THEN \E b \in {QueryBegin(status_calls, c, 2, "verify")} :
               status_calls' =
                   IF ~b.returned THEN b.sc
                   ELSE IF b.sc.status[b.result] # b.sc.proj
                   THEN Returned([b.sc EXCEPT !.entry = b.result,
                                              !.proj = b.sc.status[b.result]], c)
                   ELSE Returned(b.sc, c)
       ELSE status_calls' = Returned(status_calls, c)
    /\ UNCHANGED << rq_vars, queue_vars, rpc_vars, wait_vars, engine_vars, stream_vars,
                    roundtrip, progress, convert_rpc >>

\* The second query comes back: a Task whose status differs from the
\* projection is stored and returned, otherwise the projection is returned.
StatusVerifyReturns(c, in_map, fail) ==
    /\ status_calls.call[c].pc = "verify"
    /\ \E out \in {QueryOutcome(status_calls, c, in_map, fail)} :
       \E result \in {QueryResult(status_calls, out)} :
          status_calls' =
              IF result # NoObject /\ out.status[result] # status_calls.proj
              THEN Returned([status_calls EXCEPT !.status = out.status,
                                                 !.entry = result,
                                                 !.proj = out.status[result]], c)
              ELSE Returned([status_calls EXCEPT !.status = out.status,
                                                 !.entry = AfterFinally(status_calls, c)], c)
    /\ UNCHANGED << rq_vars, queue_vars, rpc_vars, wait_vars, engine_vars, stream_vars,
                    roundtrip, progress, convert_rpc >>

Suspended(sc) == {c \in StatusCallers : sc.call[c].pc \in {"query", "verify"}}

\* A worker takes the job, ends it, or the job's key expires.
StatusJobMoves(job) ==
    /\ \/ status_calls.job = "queued" /\ job = "started"
       \/ status_calls.job = "started" /\ job \in {"finished", "failed"}
       \/ status_calls.job \in {"finished", "failed"} /\ job = "none"
    /\ status_calls' = [status_calls EXCEPT !.job = job]
    /\ UNCHANGED << rq_vars, queue_vars, rpc_vars, wait_vars, engine_vars, stream_vars,
                    roundtrip, progress, convert_rpc >>

\* While a call is suspended on its query, a terminal task is stored under
\* the id (the failure a watchdog published, delivered by the listener).
StoreTerminal ==
    /\ Suspended(status_calls) # {}
    /\ ~status_calls.stored_terminal
    /\ status_calls' = [status_calls EXCEPT !.status["published"] = FAILURE,
                                            !.entry = "published",
                                            !.stored_terminal = TRUE]
    /\ UNCHANGED << rq_vars, queue_vars, rpc_vars, wait_vars, engine_vars, stream_vars,
                    roundtrip, progress, convert_rpc >>

\* The task was enqueued by this process, or by one that has since restarted.
InitConcurrent ==
    /\ tasks = [id \in TaskIds |-> NoTask]
    /\ task_result_keys = {}
    /\ redis_metadata = [id \in TaskIds |-> NoMeta]
    /\ redis_result_key = {}
    /\ rq_job = [id \in TaskIds |-> "none"]
    /\ rq_results = {}
    /\ single_use_results = FALSE
    /\ removal = [id \in TaskIds |-> 0]
    /\ issued = {}
    /\ deleted = {}
    /\ delete_calls = [id \in TaskIds |-> 0]
    /\ reported_terminal = {}
    /\ orphan_msg = [id \in TaskIds |-> "none"]
    /\ watchdog_published = {}
    /\ last = NoCall
    /\ observed = [id \in TaskIds |-> NoObservation]
    /\ GrpcIdle
    /\ StreamIdle
    /\ WaitIdle
    /\ EngineIdle
    /\ roundtrip = NoRoundTrip
    /\ progress = NoProgress
    /\ convert_rpc = NoConvertRpc
    /\ status_calls \in {[NoStatusCalls EXCEPT !.entry = e] : e \in {"enqueued", NoObject}}

NextConcurrent ==
    \/ \E c \in StatusCallers : StatusCallBegins(c)
    \/ \E c \in StatusCallers, in_map, fail \in BOOLEAN : StatusQueryReturns(c, in_map, fail)
    \/ \E c \in StatusCallers : StatusProjectionRead(c)
    \/ \E c \in StatusCallers, in_map, fail \in BOOLEAN : StatusVerifyReturns(c, in_map, fail)
    \/ \E job \in {"started", "finished", "failed", "none"} : StatusJobMoves(job)
    \/ StoreTerminal

SpecConcurrent == InitConcurrent /\ [][NextConcurrent]_vars

AllReturned == \A c \in StatusCallers : status_calls.call[c].pc = "returned"

PlaceholderLeft ==
    status_calls.entry \in Placeholders /\ status_calls.status[status_calls.entry] = PENDING

TerminalLost ==
    /\ status_calls.stored_terminal
    /\ status_calls.entry # NoObject
    /\ status_calls.status[status_calls.entry] \in NonTerminal

\* C39: once every concurrent task_status call on the id has returned, the
\* map entry is not a pending placeholder of a queue query, and is not a
\* non-terminal task when a terminal one was stored during a suspended query.
C39_ConcurrentCallsKeepMap == AllReturned => ~PlaceholderLeft /\ ~TerminalLost

\* What does hold: calls that do not overlap leave no pending placeholder.
NoOverlap ==
    \E c \in StatusCallers : status_calls.call[c].pc = "idle"

SequentialCallLeavesNoPlaceholder ==
    (\A c \in StatusCallers : status_calls.call[c].pc \in {"idle", "returned"}) /\ NoOverlap
        => ~PlaceholderLeft

\* ---------------------------------------------------------------------------
\* enqueue with the queue push raising.
\* ---------------------------------------------------------------------------

\* RedisAwareRQOrchestrator.enqueue when self._rq_queue.enqueue raises: the
\* Task is already in the in-memory map, the exception leaves the method
\* before init_task_tracking and before the projection write; no job exists.
EnqueuePushFails(id, sources) ==
    /\ id \notin issued
    /\ tasks' = [tasks EXCEPT ![id] = [task_status |-> PENDING, error_message |-> "none",
                                      finished_at |-> "none"]]
    /\ last' = [NoCall EXCEPT !.op = "enqueue_push_failed", !.id = id,
                              !.kind = "error",
                              !.mem_before = tasks[id].task_status,
                              !.proj_before = redis_metadata[id],
                              !.rq = rq_job[id],
                              !.sources = sources,
                              !.payload = RqSources(sources)]
    /\ issued' = issued \cup {id}
    /\ UNCHANGED << service_vars, observed, delete_calls, task_result_keys, redis_metadata,
                    redis_result_key, rq_job, rq_results, single_use_results,
                    removal, deleted, reported_terminal, orphan_msg, watchdog_published >>

NextPushFaults ==
    \/ Next
    \/ \E id \in TaskIds, sources \in RequestSources : EnqueuePushFails(id, sources)

SpecPushFaults == Init /\ [][NextPushFaults]_vars

PushFailed == last.op = "enqueue_push_failed"

\* C40: an enqueue whose queue push failed ends in an error and leaves no
\* Task for the new id, neither in the in-memory map nor in the projection.
C40_FailedPushLeavesNoTrace ==
    PushFailed => /\ last.kind = "error"
                  /\ tasks[last.id] = NoTask
                  /\ redis_metadata[last.id] = NoMeta

\* What does hold: the call fails, and neither the projection nor the queue
\* holds anything for the id.
FailedPushLeavesNoProjection ==
    PushFailed => /\ last.kind = "error"
                  /\ redis_metadata[last.id] = NoMeta
                  /\ rq_job[last.id] = "none"

====
